---- MODULE Spec2Model ----
(***************************************************************************)
(* Karapace schema registry: the log-backed projection (KafkaSchemaReader) *)
(* and the registration pipeline (KarapaceSchemaRegistry) as one state     *)
(* machine over a shared single-partition log.                             *)
(***************************************************************************)
EXTENDS Integers, Sequences, FiniteSets, TLC

VARIABLES
    log,        \* the schema topic: a sequence of records; offset o is log[o + 1]
    reader,     \* per replica: the KafkaSchemaReader object (catalog + projector position)
    mc,         \* per replica: MasterCoordinator.get_master_info()[0]: "true", "false", "none"
    registry,   \* per replica: the request running in KarapaceSchemaRegistry
    hist        \* per replica: outcome of the last finished request (observation only)

vars == <<log, reader, mc, registry, hist>>

-----------------------------------------------------------------------------
(* Bounds of the model *)

MaxLog == 3        \* records the log may hold
MaxBatch == 2      \* records one consumer.poll may return

(* Constants of the program *)

OFFSET_UNINITIALIZED == -2
OFFSET_EMPTY == -1

Replicas == {"r1", "r2"}
Subjects == {"s1", "s2"}
NoSubject == "null"

-----------------------------------------------------------------------------
(* Python dict: insertion-ordered sequence of <<key, value>> pairs *)

DictKeys(d) == {d[i][1] : i \in DOMAIN d}

DictHas(d, k) == \E i \in DOMAIN d : d[i][1] = k

DictGet(d, k) == d[CHOOSE i \in DOMAIN d : d[i][1] = k][2]

DictSet(d, k, v) ==
    IF DictHas(d, k)
    THEN [i \in DOMAIN d |-> IF d[i][1] = k THEN <<k, v>> ELSE d[i]]
    ELSE Append(d, <<k, v>>)

DictPop(d, k) == SelectSeq(d, LAMBDA e : e[1] # k)

DictKeyList(d) == [i \in DOMAIN d |-> d[i][1]]

SetMax(S) == CHOOSE x \in S : \A y \in S : y <= x

\* an assignment in place of max
TakeNew(a, b) == b

Max(a, b) == IF a >= b THEN a ELSE b

-----------------------------------------------------------------------------
(* Schema texts.  A text is a string; the parsers are tables over the      *)
(* texts the model submits or replays.                                     *)
(*   "{a}"    a JSON document, already in json.dumps(sort_keys) form       *)
(*   "{ a }"  the same document, formatted differently                     *)
(*   "{b}"    another JSON document                                        *)
(*   "{a}#"   document a followed by trailing data                         *)
(*   "{"      not JSON                                                     *)
(*   "pa"     a Protobuf definition in the parser's printed form           *)
(*   "pa~"    the same definition, formatted differently                   *)
(*   "p!"     not a Protobuf definition                                    *)

Err == "ERR"

\* json.loads(text): the parsed document, Err on JSONDecodeError
json_loads(text) ==
    CASE text = "{a}" -> "doc_a"
      [] text = "{ a }" -> "doc_a"
      [] text = "{b}" -> "doc_b"
      [] text = "{c}" -> "doc_c"
      [] text = "{n}" -> "doc_n"
      [] OTHER -> Err

\* json.dumps(doc, sort_keys=True)
json_dumps(doc) ==
    CASE doc = "doc_a" -> "{a}"
      [] doc = "doc_b" -> "{b}"
      [] doc = "doc_c" -> "{c}"
      [] doc = "doc_n" -> "{n}"
      [] OTHER -> Err

\* karapace.utils.json_encode(doc): compact separators, sorted keys
json_encode(doc) ==
    CASE doc = "doc_a" -> "<a>"
      [] doc = "doc_b" -> "<b>"
      [] doc = "doc_c" -> "<c>"
      [] doc = "doc_n" -> "<n>"
      [] OTHER -> Err

\* str(ProtobufSchema(text)): the printed syntax tree, Err when the parser raises
proto_str(text) ==
    CASE text = "pa" -> "pa"
      [] text = "pa~" -> "pa"
      [] OTHER -> Err

\* parse_avro_schema_definition: json.loads that retries without trailing data
parse_avro_schema_definition(text) ==
    IF json_loads(text) # Err THEN json_loads(text)
    ELSE IF text = "{a}#" THEN "doc_a"
    ELSE Err

\* avro.schema.parse(json.dumps(doc), validate_names=...): document doc_n is
\* a record whose name only passes with validate_names=False
avro_parse(doc, validate_names) ==
    IF doc = "doc_n" /\ validate_names THEN Err ELSE doc

\* karapace.schema_models.parse: TRUE when it returns a schema, FALSE when it
\* raises InvalidSchema
parse(schema_type, schema_str, validate_avro_names) ==
    CASE schema_type = "AVRO" ->
             /\ parse_avro_schema_definition(schema_str) # Err
             /\ avro_parse(parse_avro_schema_definition(schema_str),
                           validate_avro_names) # Err
      [] schema_type = "JSON" -> json_loads(schema_str) # Err
      [] schema_type = "PROTOBUF" -> proto_str(schema_str) # Err
      [] OTHER -> FALSE

\* ParsedTypedSchema.parse: the parse of schemas read from the topic
ParsedTypedSchema_parse(schema_type, schema_str) == parse(schema_type, schema_str, FALSE)

\* ValidatedTypedSchema.parse: the parse of schemas received through the API
ValidatedTypedSchema_parse(schema_type, schema_str) == parse(schema_type, schema_str, TRUE)

SchemaTypes == {"AVRO", "JSON", "PROTOBUF"}

NoRefs == <<>>

\* Reference(name, subject, version)
Reference(n, s, v) == [name |-> n, subject |-> s, version |-> v]

\* TypedSchema(schema_type, schema_str, references); parsed is TRUE for a
\* ParsedTypedSchema / ValidatedTypedSchema (its __str__ prints the parsed
\* Protobuf schema), FALSE for the plain TypedSchema the reader builds.
TypedSchema(t, s, refs, p) ==
    [schema_type |-> t, schema_str |-> s, references |-> refs, parsed |-> p]

\* TypedSchema.to_dict: json.loads(schema_str)
to_dict(schema) == json_loads(schema.schema_str)

\* TypedSchema.__str__ / ParsedTypedSchema.__str__; Err when it raises
StrOf(schema) ==
    IF schema.schema_type = "PROTOBUF"
    THEN IF schema.parsed THEN proto_str(schema.schema_str) ELSE schema.schema_str
    ELSE json_encode(to_dict(schema))

\* TypedSchema.__eq__
SchemaEq(a, b) ==
    /\ a.schema_type = b.schema_type
    /\ StrOf(a) = StrOf(b)
    /\ a.references = b.references

-----------------------------------------------------------------------------
(* Log records.  key.ok / value.kind say whether the bytes are JSON; value  *)
(* kind "none" is an empty value (tombstone).  has is the set of fields     *)
(* the JSON object carries; a field outside has holds a filler.             *)

Key(kt, s, v) == [ok |-> TRUE, keytype |-> kt, subject |-> s, version |-> v]

BadKey == [ok |-> FALSE, keytype |-> "", subject |-> NoSubject, version |-> 0]

NoValue ==
    [kind |-> "none", has |-> {}, subject |-> NoSubject, version |-> 0, id |-> 0,
     schema |-> "", deleted |-> FALSE, schemaType |-> "AVRO", references |-> NoRefs,
     compatibilityLevel |-> ""]

BadValue == [NoValue EXCEPT !.kind = "badjson"]

SchemaValue(s, v, i, text, del, t, refs) ==
    [kind |-> "obj",
     has |-> {"subject", "version", "id", "schema", "deleted"}
             \cup (IF t # "AVRO" THEN {"schemaType"} ELSE {})
             \cup (IF refs # NoRefs THEN {"references"} ELSE {}),
     subject |-> s, version |-> v, id |-> i, schema |-> text, deleted |-> del,
     schemaType |-> t, references |-> refs, compatibilityLevel |-> ""]

ConfigValue(level) ==
    [NoValue EXCEPT !.kind = "obj", !.has = {"compatibilityLevel"},
                    !.compatibilityLevel = level]

DeleteSubjectValue(s, v) ==
    [NoValue EXCEPT !.kind = "obj", !.has = {"subject", "version"},
                    !.subject = s, !.version = v]

Record(k, v) == [key |-> k, value |-> v]

-----------------------------------------------------------------------------
(* The catalog: the fields of KafkaSchemaReader the records are folded into *)

Absent == "ABSENT"

EmptySubject == [compatibility |-> Absent, schemas |-> <<>>]

EmptyCatalog ==
    [subjects |-> [s \in {} |-> EmptySubject],
     schemas |-> <<>>,
     referenced_by |-> [k \in {} |-> <<>>],
     global_schema_id |-> 0,
     on_subject |-> [k \in {} |-> 0],
     compatibility |-> "BACKWARD"]

\* outcome of a handler: the catalog it leaves and whether it raised
Done(c) == [c |-> c, raised |-> FALSE]
Raised(c) == [c |-> c, raised |-> TRUE]

SubjectsSet(c, s, data) ==
    [x \in DOMAIN c.subjects \cup {s} |-> IF x = s THEN data ELSE c.subjects[x]]

SubjectsDel(c, s) == [x \in DOMAIN c.subjects \ {s} |-> c.subjects[x]]

\* hash((subject, schema.__str__())), taken as injective
FmKey(s, schema) == <<s, StrOf(schema)>>

\* KafkaSchemaReader._set_schema_id_on_subject: dict.setdefault
set_schema_id_on_subject(fm, s, schema, id) ==
    IF FmKey(s, schema) \in DOMAIN fm THEN fm
    ELSE [k \in DOMAIN fm \cup {FmKey(s, schema)} |->
            IF k = FmKey(s, schema) THEN id ELSE fm[k]]

\* KafkaSchemaReader._delete_from_schema_id_on_subject: dict.pop(key, None)
delete_from_schema_id_on_subject(fm, s, schema) ==
    [k \in DOMAIN fm \ {FmKey(s, schema)} |-> fm[k]]

\* a listing that ignores include_deleted
get_schemas_unfiltered(c, s, include_deleted) ==
    IF s \notin DOMAIN c.subjects THEN <<>> ELSE c.subjects[s].schemas

\* a lookup that never finds the schema
get_schema_id_if_exists_miss(c, s, schema) == 0

\* KafkaSchemaReader.get_schema_id_if_exists; 0 stands for None
get_schema_id_if_exists(c, s, schema) ==
    IF FmKey(s, schema) \in DOMAIN c.on_subject THEN c.on_subject[FmKey(s, schema)] ELSE 0

\* KafkaSchemaReader.get_schemas
get_schemas(c, s, include_deleted) ==
    IF s \notin DOMAIN c.subjects THEN <<>>
    ELSE IF include_deleted THEN c.subjects[s].schemas
    ELSE SelectSeq(c.subjects[s].schemas, LAMBDA e : e[2].deleted = FALSE)

\* KarapaceSchemaRegistry.schemas_get; the empty sequence stands for None
schemas_get(c, id) == IF DictHas(c.schemas, id) THEN <<DictGet(c.schemas, id)>> ELSE <<>>

-----------------------------------------------------------------------------
(* The transition function of the projector *)

\* KafkaSchemaReader._handle_msg_config
handle_msg_config(c, key, value) ==
    IF key.subject # NoSubject
    THEN LET base == IF key.subject \in DOMAIN c.subjects
                     THEN c.subjects[key.subject] ELSE EmptySubject
         IN IF value.kind = "none" \/ value.has = {}
            THEN Done([c EXCEPT !.subjects =
                        SubjectsSet(c, key.subject, [base EXCEPT !.compatibility = Absent])])
            ELSE IF "compatibilityLevel" \notin value.has
            THEN Raised([c EXCEPT !.subjects = SubjectsSet(c, key.subject, base)])
            ELSE Done([c EXCEPT !.subjects =
                        SubjectsSet(c, key.subject,
                                    [base EXCEPT !.compatibility = value.compatibilityLevel])])
    ELSE IF value.kind # "none"
    THEN IF "compatibilityLevel" \notin value.has THEN Raised(c)
         ELSE Done([c EXCEPT !.compatibility = value.compatibilityLevel])
    ELSE Done(c)

\* a handler that marks every row of the subject, whatever its version
delete_schema_any_version(row, version) == [row EXCEPT !.deleted = TRUE]

\* KafkaSchemaReader._delete_schema_below_version
delete_schema_below_version(row, version) ==
    IF row.version <= version THEN [row EXCEPT !.deleted = TRUE] ELSE row

\* the loop of _handle_msg_delete_subject over the rows of the subject:
\* every row's fast-match entry is popped, whatever its version
RECURSIVE PopAllOnSubject(_, _, _)
PopAllOnSubject(fm, s, rows) ==
    IF rows = <<>> THEN fm
    ELSE PopAllOnSubject(delete_from_schema_id_on_subject(fm, s, Head(rows)[2].schema),
                         s, Tail(rows))

\* KafkaSchemaReader._handle_msg_delete_subject
handle_msg_delete_subject(c, key, value) ==
    IF value.kind = "none" THEN Done(c)
    ELSE IF "subject" \notin value.has THEN Raised(c)
    ELSE IF value.subject \notin DOMAIN c.subjects THEN Done(c)
    ELSE LET rows == c.subjects[value.subject].schemas
         IN IF rows # <<>> /\ "version" \notin value.has THEN Raised(c)
            ELSE Done([c EXCEPT
                   !.subjects[value.subject].schemas =
                       [i \in DOMAIN rows |->
                          <<rows[i][1], delete_schema_below_version(rows[i][2], value.version)>>],
                   !.on_subject = PopAllOnSubject(c.on_subject, value.subject, rows)])

\* KafkaSchemaReader._handle_msg_schema_hard_delete
handle_msg_schema_hard_delete(c, key) ==
    IF key.subject \notin DOMAIN c.subjects THEN Done(c)
    ELSE IF ~DictHas(c.subjects[key.subject].schemas, key.version) THEN Done(c)
    ELSE LET left == DictPop(c.subjects[key.subject].schemas, key.version)
         IN IF left = <<>>
            THEN Done([c EXCEPT !.subjects = SubjectsDel(c, key.subject)])
            ELSE Done([c EXCEPT !.subjects[key.subject].schemas = left])

\* KafkaSchemaReader.resolve_references with _resolve_reference: "ok" when
\* the loop returns its dependencies, else the exception that ends it.  fuel
\* is the depth the interpreter allows: the recursion follows the references
\* of each target and raises RecursionError when the depth is used up
RECURSIVE resolve_outcome(_, _, _)
resolve_outcome(c, refs, fuel) ==
    IF refs = <<>> THEN "ok"
    ELSE IF fuel <= 0 THEN "RecursionError"
    ELSE LET ref == Head(refs)
             found == /\ ref.subject \in DOMAIN c.subjects
                      /\ DictHas(c.subjects[ref.subject].schemas, ref.version)
             target == DictGet(c.subjects[ref.subject].schemas, ref.version).schema
             first == IF ~found THEN "InvalidReferences"
                      ELSE IF target.references = NoRefs THEN "ok"
                      ELSE resolve_outcome(c, target.references, fuel - 1)
         IN IF first # "ok" THEN first ELSE resolve_outcome(c, Tail(refs), fuel)

\* KafkaSchemaReader.resolve_references: TRUE when every reference resolves,
\* FALSE when InvalidReferences (or, on a cycle, RecursionError) is raised
resolve_references(c, refs, fuel) == resolve_outcome(c, refs, fuel) = "ok"

\* referenced_by bookkeeping of _handle_msg_schema: append the referring id
RECURSIVE AddReferents(_, _, _)
AddReferents(rb, refs, id) ==
    IF refs = <<>> THEN rb
    ELSE LET k == <<Head(refs).subject, Head(refs).version>>
             rb2 == [x \in DOMAIN rb \cup {k} |->
                       IF x = k
                       THEN IF k \in DOMAIN rb /\ rb[k] # <<>>
                            THEN Append(rb[k], id) ELSE <<id>>
                       ELSE rb[x]]
         IN AddReferents(rb2, Tail(refs), id)

\* the tail of _handle_msg_schema, from the insertion of the subject on, for
\* the typed schema built from the record
StoreTyped(c, value, typed_schema) ==
    LET refs == typed_schema.references
        row == [schema |-> typed_schema, version |-> value.version, id |-> value.id,
                deleted |-> value.deleted, references |-> refs]
        base == IF value.subject \in DOMAIN c.subjects
                THEN c.subjects[value.subject] ELSE EmptySubject
        subj == [base EXCEPT !.schemas = DictSet(base.schemas, value.version, row)]
    IN [c EXCEPT
          !.subjects = SubjectsSet(c, value.subject, subj),
          !.referenced_by = AddReferents(c.referenced_by, refs, value.id),
          !.schemas = DictSet(c.schemas, value.id, typed_schema),
          !.global_schema_id = Max(c.global_schema_id, value.id),
          !.on_subject =
              IF ~value.deleted
              THEN set_schema_id_on_subject(c.on_subject, value.subject, typed_schema, value.id)
              ELSE delete_from_schema_id_on_subject(c.on_subject, value.subject, typed_schema)]

\* a reader that stores the text of the record as it stands, without re-encoding
StoreSchemaRaw(c, value, t, str, refs) ==
    StoreTyped(c, value, TypedSchema(t, value.schema, refs, FALSE))

\* the TypedSchema of _handle_msg_schema: the re-encoded text str of the record
StoreSchema(c, value, t, str, refs) ==
    StoreTyped(c, value, TypedSchema(t, str, refs, FALSE))

\* KafkaSchemaReader._handle_msg_schema
handle_msg_schema(c, key, value) ==
    IF value.kind = "none" \/ value.has = {} THEN handle_msg_schema_hard_delete(c, key)
    ELSE IF ~({"schema", "subject", "id", "version"} \subseteq value.has) THEN Raised(c)
    ELSE IF value.schemaType \notin SchemaTypes THEN Done(c)
    ELSE IF value.schemaType \in {"AVRO", "JSON"}
    THEN IF json_loads(value.schema) = Err THEN Done(c)
         ELSE Done(StoreSchema(c, value, value.schemaType,
                               json_dumps(json_loads(value.schema)), NoRefs))
    ELSE IF ~resolve_references(c, value.references, MaxLog + 1) THEN Raised(c)
    ELSE IF proto_str(value.schema) = Err THEN Raised(c)
    ELSE Done(StoreSchema(c, value, "PROTOBUF", proto_str(value.schema), value.references))

\* KafkaSchemaReader.handle_msg
handle_msg(c, key, value) ==
    CASE key.keytype = "CONFIG" -> handle_msg_config(c, key, value)
      [] key.keytype = "SCHEMA" -> handle_msg_schema(c, key, value)
      [] key.keytype = "DELETE_SUBJECT" -> handle_msg_delete_subject(c, key, value)
      [] OTHER -> Done(c)

-----------------------------------------------------------------------------
(* The projector thread: KafkaSchemaReader.run and handle_messages *)

Min(a, b) == IF a <= b THEN a ELSE b

\* KafkaSchemaReader.__init__, with the consumer position before the first
\* poll, taken when run() has reached its main loop: the clients are created
\* and the topic exists
InitReader ==
    [cat |-> EmptyCatalog,
     offset |-> OFFSET_UNINITIALIZED,
     ready |-> FALSE,
     greatest_offset |-> -1,
     position |-> 0,
     raw_msgs |-> <<>>,
     watch_offsets |-> FALSE,
     phase |-> "loop",
     stop |-> FALSE,
     admin_client |-> TRUE,
     consumer |-> TRUE,
     schema_topic_exists |-> TRUE,
     id_lock |-> FALSE,
     row_set |-> FALSE]

\* a watcher that stores the offset it is given
offset_stored(greatest, new_offset) == new_offset

\* a watcher told the offset after the one that was handled
offset_seen_ahead(greatest, new_offset) == Max(greatest, new_offset + 1)

\* OffsetsWatcher.offset_seen
offset_seen(greatest, new_offset) == Max(greatest, new_offset)

\* a seed that takes the beginning offset itself
get_beginning_offset_as_read(ok) == 0

\* KafkaSchemaReader._get_beginning_offset: beginning offset of the partition
\* minus one, OFFSET_UNINITIALIZED when the request fails
get_beginning_offset(ok) == IF ok THEN 0 - 1 ELSE OFFSET_UNINITIALIZED

\* a readiness check that does not wait for the end offset
is_ready_at_once(rd, end_ok) == TRUE

\* KafkaSchemaReader._is_ready: end_ok is FALSE when end_offsets raises
is_ready(rd, end_ok) ==
    IF rd.ready THEN TRUE
    ELSE IF end_ok THEN rd.offset >= Len(log) - 1
    ELSE FALSE

\* One turn of the loop of run() up to the for loop of handle_messages:
\* seed the offset, poll k records, re-evaluate ready, read the master status.
Poll(r, k, begin_ok, end_ok) ==
    /\ reader[r].phase = "loop"
    /\ ~reader[r].stop
    /\ reader[r].raw_msgs = <<>>
    /\ k <= Min(MaxBatch, Len(log) - reader[r].position)
    /\ LET rd == reader[r]
           seeded == IF rd.offset = OFFSET_UNINITIALIZED
                     THEN [rd EXCEPT !.offset = get_beginning_offset(begin_ok)]
                     ELSE rd
       IN reader' = [reader EXCEPT ![r] =
              [seeded EXCEPT
                 !.raw_msgs = [i \in 1..k |-> rd.position + i - 1],
                 !.position = rd.position + k,
                 !.ready = is_ready(seeded, end_ok),
                 !.watch_offsets = (mc[r] = "true")]]
    /\ UNCHANGED <<log, mc, registry, hist>>

\* a fold that signals every handled record once the reader is ready
FoldMsgSignalling(rd, off) ==
    LET msg == log[off + 1]
        res == handle_msg(rd.cat, msg.key, msg.value)
    IN IF ~msg.key.ok \/ msg.value.kind = "badjson"
       THEN [rd EXCEPT !.raw_msgs = Tail(rd.raw_msgs)]
       ELSE IF res.raised
       THEN [rd EXCEPT !.cat = res.c, !.raw_msgs = <<>>]
       ELSE [rd EXCEPT
               !.cat = res.c,
               !.raw_msgs = Tail(rd.raw_msgs),
               !.offset = off,
               !.greatest_offset =
                   IF rd.ready THEN offset_seen(rd.greatest_offset, off)
                   ELSE rd.greatest_offset]

\* the body of the for loop of handle_messages for the next polled record
FoldMsg(rd, off) ==
    LET msg == log[off + 1]
        res == handle_msg(rd.cat, msg.key, msg.value)
    IN IF ~msg.key.ok \/ msg.value.kind = "badjson"
       THEN [rd EXCEPT !.raw_msgs = Tail(rd.raw_msgs)]
       ELSE IF res.raised
       THEN [rd EXCEPT !.cat = res.c, !.raw_msgs = <<>>]
       ELSE [rd EXCEPT
               !.cat = res.c,
               !.raw_msgs = Tail(rd.raw_msgs),
               !.offset = off,
               !.greatest_offset =
                   IF rd.ready /\ rd.watch_offsets
                   THEN offset_seen(rd.greatest_offset, off)
                   ELSE rd.greatest_offset]

Fold(r) ==
    /\ reader[r].raw_msgs # <<>>
    /\ reader' = [reader EXCEPT ![r] = FoldMsg(reader[r], Head(reader[r].raw_msgs))]
    /\ UNCHANGED <<log, mc, registry, hist>>

\* MasterCoordinator: the election outcome changes under the replica
MasterStates == {"true", "false", "none"}

MasterChange(r, m) ==
    /\ m \in MasterStates \ {mc[r]}
    /\ mc' = [mc EXCEPT ![r] = m]
    /\ UNCHANGED <<log, reader, registry, hist>>

-----------------------------------------------------------------------------
(* The registration pipeline: KarapaceSchemaRegistry *)

CompatibilityModes ==
    {"NONE", "BACKWARD", "BACKWARD_TRANSITIVE", "FORWARD", "FORWARD_TRANSITIVE",
     "FULL", "FULL_TRANSITIVE"}

\* CompatibilityModes.is_transitive
is_transitive(mode) == mode \in {"BACKWARD_TRANSITIVE", "FORWARD_TRANSITIVE", "FULL_TRANSITIVE"}

\* documents b and c can read each other's data; any other two different
\* documents cannot
can_read(old, new) ==
    \/ StrOf(old) = StrOf(new)
    \/ {StrOf(old), StrOf(new)} = {"<b>", "<c>"}

\* karapace.compatibility.check_compatibility followed by is_incompatible:
\* no verdict is incompatible in mode NONE; in the other modes schemas of
\* different types, and documents that cannot read each other, are
is_incompatible(old, new, mode) ==
    /\ mode # "NONE"
    /\ \/ old.schema_type # new.schema_type
       \/ ~can_read(old, new)

\* KafkaSchemaReader.get_schema_id: the first id, in the insertion order of
\* self.schemas, bound to a schema equal to new_schema; else the next id
get_schema_id(c, new_schema) ==
    LET hits == {i \in DOMAIN c.schemas : SchemaEq(c.schemas[i][2], new_schema)}
    IN IF StrOf(new_schema) = Err
          /\ \E i \in DOMAIN c.schemas : c.schemas[i][2].schema_type = new_schema.schema_type
       THEN [raised |-> TRUE, id |-> 0, gid |-> c.global_schema_id]
       ELSE IF hits # {}
       THEN [raised |-> FALSE,
             id |-> c.schemas[CHOOSE i \in hits : \A j \in hits : i <= j][1],
             gid |-> c.global_schema_id]
       ELSE [raised |-> FALSE, id |-> c.global_schema_id + 1, gid |-> c.global_schema_id + 1]

\* KarapaceSchemaRegistry.get_compatibility_mode
get_compatibility_mode(c, subject_data) ==
    IF subject_data.compatibility # Absent THEN subject_data.compatibility ELSE c.compatibility

\* a check set that leaves every version out
check_against_none(c, subject_data, live) == {}

\* the versions write_new_schema_local checks the new schema against
check_against(c, subject_data, live) ==
    LET versions == DictKeys(live)
    IN IF is_transitive(get_compatibility_mode(c, subject_data)) THEN versions
       ELSE {SetMax(versions)}

\* a version taken from the number of rows
next_version_by_count(subject_data) == Len(subject_data.schemas) + 1

\* version = max(self.schema_reader.subjects[subject]["schemas"]) + 1
next_version(subject_data) == SetMax(DictKeys(subject_data.schemas)) + 1

\* ValidatedTypedSchema.parse of the stored schema of old_version raises
old_schema_rejected(subject_data, old_version) ==
    ~ValidatedTypedSchema_parse(DictGet(subject_data.schemas, old_version).schema.schema_type,
                                DictGet(subject_data.schemas, old_version).schema.schema_str)

\* the first version of the loop over check_against, in ascending order, at
\* which write_new_schema_local raises; 0 when the loop ends
first_failing(c, subject_data, live, new_schema) ==
    LET failing == {v \in check_against(c, subject_data, live) :
                      \/ old_schema_rejected(subject_data, v)
                      \/ is_incompatible(DictGet(subject_data.schemas, v).schema, new_schema,
                                         get_compatibility_mode(c, subject_data))}
    IN IF failing = {} THEN 0 ELSE CHOOSE v \in failing : \A w \in failing : v <= w

\* KarapaceSchemaRegistry.write_new_schema_local up to send_schema_message:
\* what it decides.  kind is "append" (send a record), "return" (an existing
\* id, nothing sent) or "raise"; gid is global_schema_id as get_schema_id leaves it.
write_new_schema_decision(c, subject, new_schema) ==
    LET subject_data == IF subject \in DOMAIN c.subjects THEN c.subjects[subject] ELSE EmptySubject
        live == get_schemas(c, subject, FALSE)
        got == get_schema_id(c, new_schema)
        decided(version) ==
            IF got.raised
            THEN [kind |-> "raise", error |-> "JSONDecodeError", id |-> 0, version |-> 0,
                  gid |-> c.global_schema_id]
            ELSE [kind |-> "append", error |-> "", id |-> got.id, version |-> version,
                  gid |-> got.gid]
        failed(e) == [kind |-> "raise", error |-> e, id |-> 0, version |-> 0,
                      gid |-> c.global_schema_id]
    IN IF subject_data.schemas = <<>> THEN decided(1)
       ELSE IF live = <<>> THEN decided(next_version(subject_data))
       ELSE IF StrOf(new_schema) = Err THEN failed("JSONDecodeError")
       ELSE IF get_schema_id_if_exists(c, subject, new_schema) # 0
       THEN [kind |-> "return", error |-> "",
             id |-> get_schema_id_if_exists(c, subject, new_schema), version |-> 0,
             gid |-> c.global_schema_id]
       ELSE IF get_compatibility_mode(c, subject_data) \notin CompatibilityModes
       THEN failed("ValueError")
       ELSE IF first_failing(c, subject_data, live, new_schema) # 0
       THEN IF old_schema_rejected(subject_data,
                                   first_failing(c, subject_data, live, new_schema))
            THEN failed("InvalidSchema")
            ELSE failed("IncompatibleSchema")
       ELSE decided(next_version(subject_data))

\* KarapaceSchemaRegistry.send_schema_message: the record it produces
schema_message(subject, schema, has_schema, schema_id, version, deleted) ==
    IF has_schema
    THEN Record(Key("SCHEMA", subject, version),
                SchemaValue(subject, version, schema_id, schema.schema_str, deleted,
                            schema.schema_type, NoRefs))
    ELSE Record(Key("SCHEMA", subject, version), NoValue)

\* KarapaceSchemaRegistry.send_config_message
config_message(level, subject) == Record(Key("CONFIG", subject, 0), ConfigValue(level))

\* KarapaceSchemaRegistry.send_delete_subject_message
delete_subject_message(subject, version) ==
    Record(Key("DELETE_SUBJECT", subject, 0), DeleteSubjectValue(subject, version))

-----------------------------------------------------------------------------
(* Requests.  A request handler first passes get_master (Gate), then runs   *)
(* one operation under schema_lock; send_kafka_message blocks the handler   *)
(* in wait_for_offset (pc "waiting") until the barrier returns or times out. *)
(* timed_out is history: a barrier wait of the replica has timed out.        *)
(* timed_offset is history too: the offset its last timed-out wait was for.  *)

NoSchema == TypedSchema("AVRO", "", NoRefs, TRUE)

Idle ==
    [pc |-> "idle", sent_offset |-> -1, todo |-> <<>>, timed_out |-> FALSE,
     timed_offset |-> -1]

NoHist ==
    [op |-> "none", outcome |-> "none", subject |-> NoSubject, schema |-> NoSchema,
     id |-> 0, version |-> 0, offset |-> -1, error |-> ""]

\* a gate that does not look at the ready flag of the reader
GateNotReady(r) ==
    /\ registry[r].pc = "idle"
    /\ mc[r] = "true"
    /\ registry' = [registry EXCEPT ![r].pc = "gated"]
    /\ hist' = [hist EXCEPT ![r] = NoHist]
    /\ UNCHANGED <<log, reader, mc>>

\* KarapaceSchemaRegistry.get_master returning (False, url): the request is
\* not served by this replica
Forward(r) ==
    /\ registry[r].pc = "idle"
    /\ mc[r] = "false"
    /\ reader[r].ready
    /\ hist' = [hist EXCEPT ![r] = [NoHist EXCEPT !.op = "get_master", !.outcome = "forward"]]
    /\ UNCHANGED <<log, reader, mc, registry>>

\* KarapaceSchemaRegistry.get_master returning (True, url)
Gate(r) ==
    /\ registry[r].pc = "idle"
    /\ mc[r] = "true"
    /\ reader[r].ready
    /\ registry' = [registry EXCEPT ![r].pc = "gated"]
    /\ hist' = [hist EXCEPT ![r] = NoHist]
    /\ UNCHANGED <<log, reader, mc>>

\* the operation ends without producing a record
Finish(r, h) ==
    /\ registry' = [registry EXCEPT ![r].pc = "idle", ![r].sent_offset = -1, ![r].todo = <<>>]
    /\ hist' = [hist EXCEPT ![r] = h]
    /\ UNCHANGED <<log, mc>>

\* KarapaceSchemaRegistry.send_kafka_message up to wait_for_offset: the record
\* is appended and the handler waits for its offset; todo are the records
\* the operation still has to send afterwards
Send(r, rec, todo, h) ==
    /\ Len(log) < MaxLog
    /\ log' = Append(log, rec)
    /\ registry' = [registry EXCEPT ![r].pc = "waiting", ![r].sent_offset = Len(log),
                                    ![r].todo = todo]
    /\ hist' = [hist EXCEPT ![r] = [h EXCEPT !.outcome = "pending", !.offset = Len(log)]]
    /\ UNCHANGED mc

\* KarapaceSchemaRegistry.write_new_schema_local
write_new_schema_local(r, subject, new_schema) ==
    /\ registry[r].pc = "gated"
    /\ LET d == write_new_schema_decision(reader[r].cat, subject, new_schema)
           h == [NoHist EXCEPT !.op = "register", !.subject = subject, !.schema = new_schema,
                               !.id = d.id, !.version = d.version, !.error = d.error]
       IN /\ reader' = [reader EXCEPT ![r].cat.global_schema_id = d.gid]
          /\ CASE d.kind = "append" ->
                     Send(r, schema_message(subject, new_schema, TRUE, d.id, d.version, FALSE),
                          <<>>, h)
               [] d.kind = "return" -> Finish(r, [h EXCEPT !.outcome = "returned"])
               [] OTHER -> Finish(r, [h EXCEPT !.outcome = "raised"])

\* wait_for_offset returns True: send_kafka_message returns, the operation
\* sends its next record or returns to the client
BarrierReturn(r) ==
    /\ registry[r].pc = "waiting"
    /\ registry[r].sent_offset <= reader[r].greatest_offset
    /\ IF registry[r].todo = <<>>
       THEN /\ registry' = [registry EXCEPT ![r].pc = "idle", ![r].sent_offset = -1]
            /\ hist' = [hist EXCEPT ![r].outcome = "returned"]
            /\ UNCHANGED <<log, reader, mc>>
       ELSE /\ Len(log) < MaxLog
            /\ log' = Append(log, Head(registry[r].todo))
            /\ registry' = [registry EXCEPT ![r].sent_offset = Len(log),
                                            ![r].todo = Tail(registry[r].todo)]
            /\ hist' = [hist EXCEPT ![r].offset = Len(log)]
            /\ UNCHANGED <<reader, mc>>

\* wait_for_offset returns False after the timeout: RuntimeError to the client
BarrierTimeout(r) ==
    /\ registry[r].pc = "waiting"
    /\ registry[r].sent_offset > reader[r].greatest_offset
    /\ registry' = [registry EXCEPT ![r] = [Idle EXCEPT !.timed_out = TRUE,
                                                       !.timed_offset = registry[r].sent_offset]]
    /\ hist' = [hist EXCEPT ![r].outcome = "timeout"]
    /\ UNCHANGED <<log, reader, mc>>


\* OffsetsWatcher.offset_seen called by a thread with any offset
OffsetSeen(r, new_offset) ==
    /\ reader' = [reader EXCEPT
                    ![r].greatest_offset = offset_seen(reader[r].greatest_offset, new_offset)]
    /\ UNCHANGED <<log, mc, registry, hist>>

\* OffsetsWatcher.wait_for_offset called by a thread: wait_for evaluates the
\* predicate first and returns True at once when it holds, else the thread waits
WaitForOffset(r, expected_offset) ==
    /\ registry[r].pc = "idle"
    /\ LET h == [NoHist EXCEPT !.op = "wait", !.offset = expected_offset]
       IN IF expected_offset <= reader[r].greatest_offset
          THEN /\ hist' = [hist EXCEPT ![r] = [h EXCEPT !.outcome = "returned"]]
               /\ UNCHANGED registry
          ELSE /\ hist' = [hist EXCEPT ![r] = [h EXCEPT !.outcome = "pending"]]
               /\ registry' = [registry EXCEPT ![r].pc = "waiting",
                                               ![r].sent_offset = expected_offset]
    /\ UNCHANGED <<log, reader, mc>>


\* KarapaceSchemaRegistry.subject_get: the error it raises, "" when it returns
subject_get_error(c, subject, include_deleted) ==
    IF subject \notin DOMAIN c.subjects THEN "SubjectNotFound"
    ELSE IF get_schemas(c, subject, include_deleted) = <<>> THEN "SchemasNotFound"
    ELSE ""

\* _resolve_version; 0 stands for VersionNotFoundException, version 0 for "latest"
resolve_version(schemas, version) ==
    IF version = 0 THEN SetMax(DictKeys(schemas))
    ELSE IF version <= SetMax(DictKeys(schemas)) THEN version
    ELSE 0

\* a version delete that does not look at the state of the row
subject_version_delete_unchecked(r, subject, version, permanent) ==
    /\ registry[r].pc = "gated"
    /\ UNCHANGED reader
    /\ subject \in DOMAIN reader[r].cat.subjects
    /\ DictHas(reader[r].cat.subjects[subject].schemas, version)
    /\ LET row == DictGet(reader[r].cat.subjects[subject].schemas, version)
       IN Send(r, schema_message(subject, row.schema, ~permanent, row.id, version, TRUE),
               <<>>, [NoHist EXCEPT !.op = "delete", !.subject = subject])

\* KarapaceSchemaRegistry.subject_version_delete_local
subject_version_delete_local(r, subject, version, permanent) ==
    /\ registry[r].pc = "gated"
    /\ UNCHANGED reader
    /\ LET c == reader[r].cat
           h == [NoHist EXCEPT !.op = "delete", !.subject = subject]
           failed(e) == Finish(r, [h EXCEPT !.outcome = "raised", !.error = e])
       IN IF subject_get_error(c, subject, TRUE) # ""
          THEN failed(subject_get_error(c, subject, TRUE))
          ELSE LET schemas == get_schemas(c, subject, TRUE)
                   resolved == resolve_version(schemas, version)
               IN IF resolved = 0 \/ ~DictHas(schemas, resolved)
                  THEN failed("VersionNotFound")
                  ELSE LET row == DictGet(schemas, resolved)
                       IN IF row.deleted /\ ~permanent THEN failed("SchemaVersionSoftDeleted")
                          ELSE IF permanent /\ ~row.deleted
                          THEN failed("SchemaVersionNotSoftDeleted")
                          ELSE Send(r, schema_message(subject, row.schema, ~permanent,
                                                      row.id, resolved, TRUE),
                                    <<>>, h)

\* KarapaceSchemaRegistry.subject_delete_local
subject_delete_local(r, subject, permanent) ==
    /\ registry[r].pc = "gated"
    /\ UNCHANGED reader
    /\ LET c == reader[r].cat
           h == [NoHist EXCEPT !.op = "delete", !.subject = subject]
           failed(e) == Finish(r, [h EXCEPT !.outcome = "raised", !.error = e])
       IN IF subject_get_error(c, subject, permanent) # ""
          THEN failed(subject_get_error(c, subject, permanent))
          ELSE LET schemas == get_schemas(c, subject, permanent)
                   version_list == DictKeyList(schemas)
                   latest_schema_id == version_list[Len(version_list)]
                   tombstones == [i \in DOMAIN schemas |->
                                    schema_message(subject, NoSchema, FALSE,
                                                   schemas[i][2].id, schemas[i][1], TRUE)]
               IN IF permanent /\ \E i \in DOMAIN schemas : ~schemas[i][2].deleted
                  THEN failed("SubjectNotSoftDeleted")
                  ELSE IF permanent
                  THEN /\ Len(log) + Len(tombstones) <= MaxLog
                       /\ Send(r, Head(tombstones), Tail(tombstones), h)
                  ELSE Send(r, delete_subject_message(subject, latest_schema_id), <<>>, h)

\* a config update: KarapaceSchemaRegistry.send_config_message under the gate
config_set(r, subject, level) ==
    /\ registry[r].pc = "gated"
    /\ UNCHANGED reader
    /\ Send(r, config_message(level, subject), <<>>,
            [NoHist EXCEPT !.op = "config", !.subject = subject])

\* a lookup that resolves the version against every row of the subject
subject_version_get_any_row(c, subject, version) ==
    LET h == [NoHist EXCEPT !.op = "lookup", !.subject = subject]
        schemas == get_schemas(c, subject, TRUE)
        resolved == resolve_version(schemas, version)
    IN IF schemas = <<>> \/ resolved = 0 \/ ~DictHas(schemas, resolved)
       THEN [h EXCEPT !.outcome = "raised", !.error = "VersionNotFound"]
       ELSE [h EXCEPT !.outcome = "returned", !.version = resolved,
                      !.id = DictGet(schemas, resolved).id,
                      !.schema = DictGet(schemas, resolved).schema]

\* KarapaceSchemaRegistry.subject_version_get: what it returns or raises;
\* version 0 stands for "latest"
subject_version_get(c, subject, version) ==
    LET h == [NoHist EXCEPT !.op = "lookup", !.subject = subject]
        failed(e) == [h EXCEPT !.outcome = "raised", !.error = e]
    IN IF subject_get_error(c, subject, FALSE) # ""
       THEN failed(subject_get_error(c, subject, FALSE))
       ELSE LET schemas == get_schemas(c, subject, FALSE)
                resolved == resolve_version(schemas, version)
            IN IF resolved = 0 \/ ~DictHas(schemas, resolved)
               THEN failed("VersionNotFound")
               ELSE [h EXCEPT !.outcome = "returned", !.version = resolved,
                              !.id = DictGet(schemas, resolved).id,
                              !.schema = DictGet(schemas, resolved).schema]

\* a client looks a version up on replica r
Lookup(r, subject, version) ==
    /\ hist' = [hist EXCEPT ![r] = subject_version_get(reader[r].cat, subject, version)]
    /\ UNCHANGED <<log, reader, mc, registry>>

-----------------------------------------------------------------------------
(* Inputs of the requests *)

SchemaA == TypedSchema("AVRO", "{ a }", NoRefs, TRUE)
SchemaB == TypedSchema("AVRO", "{b}", NoRefs, TRUE)
SchemaTrailing == TypedSchema("AVRO", "{a}#", NoRefs, TRUE)
SchemaProto == TypedSchema("PROTOBUF", "pa", NoRefs, TRUE)
SchemaProtoRef == TypedSchema("PROTOBUF", "pa~", <<Reference("n", "s1", 1)>>, TRUE)

\* what ValidatedTypedSchema.parse accepts (a Protobuf schema with references
\* is validated against the catalog by the caller)
RegSchemas == {SchemaA, SchemaB, SchemaTrailing, SchemaProtoRef}

Validated(c, schema) ==
    schema.references = NoRefs \/ resolve_references(c, schema.references, MaxLog + 1)

ConfigLevels == {"NONE", "BACKWARD_TRANSITIVE"}

-----------------------------------------------------------------------------
(* Steps of the replicas R; the requests draw their inputs from S, Sch, L *)

\* the requests of a poll that can fail: beginning_offsets is only asked while
\* the offset is uninitialised, end_offsets only while not ready
BeginOutcomes(r) == IF reader[r].offset = OFFSET_UNINITIALIZED THEN BOOLEAN ELSE {TRUE}
EndOutcomes(r) == IF reader[r].ready THEN {TRUE} ELSE BOOLEAN

DoPoll(R) ==
    \E r \in R, k \in 0..MaxBatch :
        \E b \in BeginOutcomes(r), e \in EndOutcomes(r) : Poll(r, k, b, e)
DoFold(R) == \E r \in R : Fold(r)
DoMasterChange(R) == \E r \in R, m \in MasterStates : MasterChange(r, m)
DoGate(R) == \E r \in R : Gate(r)
DoForward(R) == \E r \in R : Forward(r)
DoRegister(R, S, Sch) ==
    \E r \in R, s \in S, schema \in Sch :
        Validated(reader[r].cat, schema) /\ write_new_schema_local(r, s, schema)
DoVersionDelete(R, S) ==
    \E r \in R, s \in S, v \in 0..MaxLog, p \in BOOLEAN :
        subject_version_delete_local(r, s, v, p)
DoSubjectDelete(R, S) ==
    \E r \in R, s \in S, p \in BOOLEAN : subject_delete_local(r, s, p)
DoConfig(R, S, L) == \E r \in R, s \in S, l \in L : config_set(r, s, l)
DoBarrierReturn(R) == \E r \in R : BarrierReturn(r)
DoBarrierTimeout(R) == \E r \in R : BarrierTimeout(r)
DoOffsetSeen(R) == \E r \in R, o \in 0..MaxLog - 1 : OffsetSeen(r, o)
DoWaitForOffset(R) == \E r \in R, o \in 0..MaxLog - 1 : WaitForOffset(r, o)
DoLookup(R, S) == \E r \in R, s \in S, v \in 0..MaxLog : Lookup(r, s, v)

\* another producer appends a record to the topic
Produce(pool) ==
    /\ Len(log) < MaxLog
    /\ \E rec \in pool : log' = Append(log, rec)
    /\ UNCHANGED <<reader, mc, registry, hist>>

Init ==
    /\ log = <<>>
    /\ reader = [r \in Replicas |-> InitReader]
    /\ mc = [r \in Replicas |-> "none"]
    /\ registry = [r \in Replicas |-> Idle]
    /\ hist = [r \in Replicas |-> NoHist]

-----------------------------------------------------------------------------
(* Spec: one replica serving registrations and deletes of one subject       *)
(* against its own projection, under any changes of its master status       *)

Next ==
    \/ DoPoll({"r1"})
    \/ DoFold({"r1"})
    \/ DoMasterChange({"r1"})
    \/ DoGate({"r1"})
    \/ DoRegister({"r1"}, {"s1"}, RegSchemas)
    \/ DoVersionDelete({"r1"}, {"s1"})
    \/ DoSubjectDelete({"r1"}, {"s1"})
    \/ DoBarrierReturn({"r1"})
    \/ DoBarrierTimeout({"r1"})

Spec == Init /\ [][Next]_vars

-----------------------------------------------------------------------------
(* SpecServed: one replica serving registrations under two subjects and     *)
(* deletes of versions, in the runs where every barrier wait returns         *)

ServedSchemas == {SchemaA, SchemaTrailing, SchemaProto, SchemaProtoRef}

NextServed ==
    \/ DoPoll({"r1"})
    \/ DoFold({"r1"})
    \/ DoMasterChange({"r1"})
    \/ DoGate({"r1"})
    \/ DoRegister({"r1"}, Subjects, ServedSchemas)
    \/ DoVersionDelete({"r1"}, {"s1"})
    \/ DoBarrierReturn({"r1"})

SpecServed == Init /\ [][NextServed]_vars

-----------------------------------------------------------------------------
(* SpecReplay: one replica, not elected, replays a topic that other         *)
(* producers write.  The pool holds well-formed records and the malformed   *)
(* shapes a topic can hold.                                                  *)

RefToS1V1 == <<Reference("n", "s1", 1)>>

RecA == Record(Key("SCHEMA", "s1", 1), SchemaValue("s1", 1, 1, "{ a }", FALSE, "AVRO", NoRefs))
RecB == Record(Key("SCHEMA", "s1", 2), SchemaValue("s1", 2, 1, "{b}", FALSE, "AVRO", NoRefs))
RecASoftDelete ==
    Record(Key("SCHEMA", "s1", 1), SchemaValue("s1", 1, 1, "{a}", TRUE, "AVRO", NoRefs))
RecTombstone == Record(Key("SCHEMA", "s1", 1), NoValue)
RecDeleteSubject == Record(Key("DELETE_SUBJECT", "s1", 0), DeleteSubjectValue("s1", 1))
RecProto ==
    Record(Key("SCHEMA", "s2", 1), SchemaValue("s2", 1, 2, "pa~", FALSE, "PROTOBUF", RefToS1V1))
RecBadKey == Record(BadKey, NoValue)
RecBadValue == Record(Key("SCHEMA", "s1", 2), BadValue)
RecBadText == Record(Key("SCHEMA", "s1", 2), SchemaValue("s1", 2, 2, "{", FALSE, "AVRO", NoRefs))
RecMissingField ==
    Record(Key("SCHEMA", "s1", 2),
           [SchemaValue("s1", 2, 2, "{b}", FALSE, "AVRO", NoRefs) EXCEPT
              !.has = {"subject", "version", "id", "deleted"}])

ReplayPool ==
    {RecA, RecB, RecASoftDelete, RecTombstone, RecDeleteSubject, RecProto,
     RecBadKey, RecBadValue, RecBadText, RecMissingField}

NextReplay ==
    \/ Produce(ReplayPool)
    \/ DoPoll({"r1"})
    \/ DoFold({"r1"})

SpecReplay == Init /\ [][NextReplay]_vars

-----------------------------------------------------------------------------
(* SpecLookup: clients look versions up on a replica that replays a topic   *)
(* of registrations, soft deletes and hard deletes of one subject            *)

RecBSoftDelete ==
    Record(Key("SCHEMA", "s1", 2), SchemaValue("s1", 2, 1, "{b}", TRUE, "AVRO", NoRefs))

LookupPool == {RecA, RecB, RecASoftDelete, RecBSoftDelete, RecTombstone}

NextLookup ==
    \/ Produce(LookupPool)
    \/ DoPoll({"r1"})
    \/ DoFold({"r1"})
    \/ DoLookup({"r1"}, {"s1"})

SpecLookup == Init /\ [][NextLookup]_vars

-----------------------------------------------------------------------------
(* SpecTwo: two replicas replay the same topic, each with its own polls; one *)
(* of them is elected and deposed along the way                              *)

TwoPool == {RecA, RecB, RecMissingField}

NextTwo ==
    \/ Produce(TwoPool)
    \/ DoPoll(Replicas)
    \/ DoFold(Replicas)
    \/ DoMasterChange({"r1"})

SpecTwo == Init /\ [][NextTwo]_vars

-----------------------------------------------------------------------------
(* Properties *)

\* a registration of replica r has returned an id to its client after
\* appending a record (send_kafka_message returned without error)
RegisteredReturned(r) ==
    /\ hist[r].op = "register"
    /\ hist[r].outcome = "returned"
    /\ hist[r].offset >= 0

\* the projection of r shows the write hist[r] describes
ReflectsWrite(r) ==
    LET c == reader[r].cat
        live == get_schemas(c, hist[r].subject, FALSE)
    IN /\ reader[r].offset >= hist[r].offset
       /\ schemas_get(c, hist[r].id) # <<>>
       /\ SchemaEq(schemas_get(c, hist[r].id)[1], hist[r].schema)
       /\ DictHas(live, hist[r].version)
       /\ DictGet(live, hist[r].version).id = hist[r].id

\* C1 (read-your-write): when write_new_schema_local has returned an id after
\* appending a record, the replica's projection has folded that record: its
\* offset is >= the record's offset, schemas_get(id) is a schema equal to the
\* submitted one and get_schemas(subject) holds the assigned version with that id.
C1_ReadYourWrite == \A r \in Replicas : RegisteredReturned(r) => ReflectsWrite(r)


-----------------------------------------------------------------------------
(* Id stability in the projection *)

\* the record passes every check of _handle_msg_schema that precedes the upsert
\* of schemas[id], references aside
BindsId(rec) ==
    /\ rec.key.ok /\ rec.key.keytype = "SCHEMA"
    /\ rec.value.kind = "obj"
    /\ {"schema", "subject", "id", "version"} \subseteq rec.value.has
    /\ rec.value.schemaType \in SchemaTypes
    /\ IF rec.value.schemaType = "PROTOBUF"
       THEN proto_str(rec.value.schema) # Err
       ELSE json_loads(rec.value.schema) # Err

\* the type and canonical text the record binds to its id
BoundText(rec) ==
    <<rec.value.schemaType,
      IF rec.value.schemaType = "PROTOBUF"
      THEN proto_str(rec.value.schema)
      ELSE json_dumps(json_loads(rec.value.schema))>>

\* every id of the topic is paired with one canonical text
IdsConsistent ==
    \A i, j \in DOMAIN log :
        (BindsId(log[i]) /\ BindsId(log[j]) /\ log[i].value.id = log[j].value.id)
            => BoundText(log[i]) = BoundText(log[j])

\* a step keeps every bound id bound to the same type and text
IdsKept ==
    \A r \in Replicas : \A id \in DictKeys(reader[r].cat.schemas) :
        /\ DictHas(reader'[r].cat.schemas, id)
        /\ DictGet(reader'[r].cat.schemas, id).schema_type
             = DictGet(reader[r].cat.schemas, id).schema_type
        /\ DictGet(reader'[r].cat.schemas, id).schema_str
             = DictGet(reader[r].cat.schemas, id).schema_str

-----------------------------------------------------------------------------
(* Deduplication of registrations *)

\* the rows of the subject that are not deleted and hold a schema equal to schema
EqualLiveRows(c, subject, schema) ==
    LET live == get_schemas(c, subject, FALSE)
    IN {live[i][2] : i \in {j \in DOMAIN live : SchemaEq(live[j][2].schema, schema)}}

\* the step is a run of write_new_schema_local on replica r
RegisterStep(r) == registry[r].pc = "gated" /\ hist'[r].op = "register"

\* no barrier wait of replica r has timed out so far
Served(r) == ~registry[r].timed_out

\* the registration of a step of r returns the id of every equal live row and
\* appends nothing
ReturnsEqualRow(r) ==
    \A row \in EqualLiveRows(reader[r].cat, hist'[r].subject, hist'[r].schema) :
        /\ log' = log
        /\ hist'[r].outcome = "returned"
        /\ hist'[r].id = row.id

-----------------------------------------------------------------------------
(* Ids shared across subjects *)

\* the rows of the catalog, deleted ones included
AllRows(c) ==
    UNION {{c.subjects[s].schemas[i][2] : i \in DOMAIN c.subjects[s].schemas} :
             s \in DOMAIN c.subjects}

\* any two rows with equal schemas carry the same id
RowsShareIds(c) ==
    \A x, y \in AllRows(c) : SchemaEq(x.schema, y.schema) => x.id = y.id

\* the ids that schemas_by_id binds to a schema equal to schema
IdsOf(c, schema) ==
    {c.schemas[i][1] : i \in {j \in DOMAIN c.schemas : SchemaEq(c.schemas[j][2], schema)}}

\* the registration of a step of r, when it appends, reuses the id bound to the
\* schema and leaves global_schema_id alone
ReusesBoundId(r) ==
    \A i \in IdsOf(reader[r].cat, hist'[r].schema) :
        log' # log =>
            /\ hist'[r].id = i
            /\ log'[Len(log')].value.id = i
            /\ reader'[r].cat.global_schema_id = reader[r].cat.global_schema_id

\* C4 (cross-subject id sharing): in every state reached through registrations
\* rows with equal schemas carry the same id, and a registration of a schema
\* already bound to an id appends its record with that id without increasing
\* global_schema_id.
C4_IdSharing ==
    [][\A r \in Replicas :
          /\ RowsShareIds(reader'[r].cat)
          /\ RegisterStep(r) => ReusesBoundId(r)]_vars


-----------------------------------------------------------------------------
(* Versions assigned by registrations *)

\* the record is one that write_new_schema_local appended for the subject
IsRegistration(rec, subject) ==
    /\ rec.key.ok /\ rec.key.keytype = "SCHEMA" /\ rec.key.subject = subject
    /\ rec.value.kind = "obj" /\ ~rec.value.deleted

\* the versions of the registrations of the subject, in log order
RegVersions(subject) ==
    LET regs == SelectSeq(log, LAMBDA rec : IsRegistration(rec, subject))
    IN [i \in DOMAIN regs |-> regs[i].value.version]

\* C5 (version monotone): the versions assigned to the records that the
\* registrations of a subject append are 1, 2, 3, ... in order, also with soft
\* and hard deletes between the registrations.
C5_VersionMonotone ==
    \A s \in Subjects : \A i \in DOMAIN RegVersions(s) : RegVersions(s)[i] = i


-----------------------------------------------------------------------------
(* Deletes in the projection *)

\* the step of replica r applies the handlers to the next polled record
FoldStep(r) ==
    /\ reader[r].raw_msgs # <<>>
    /\ reader'[r].raw_msgs # reader[r].raw_msgs

\* the record that a fold step of r handles
Folding(r) == log[Head(reader[r].raw_msgs) + 1]

\* the record reaches its handler and the handler returns
Handled(c, rec) ==
    /\ rec.key.ok /\ rec.value.kind # "badjson"
    /\ ~handle_msg(c, rec.key, rec.value).raised

\* a SCHEMA record with deleted=true that the handler upserts
IsSoftDelete(c, rec) == Handled(c, rec) /\ BindsId(rec) /\ rec.value.deleted

\* a SCHEMA record with an empty value
IsHardDelete(rec) ==
    /\ rec.key.ok /\ rec.key.keytype = "SCHEMA"
    /\ (rec.value.kind = "none" \/ (rec.value.kind = "obj" /\ rec.value.has = {}))

HasRow(c, s, v) == s \in DOMAIN c.subjects /\ DictHas(c.subjects[s].schemas, v)

RowOf(c, s, v) == DictGet(c.subjects[s].schemas, v)

\* what the listings show once the soft delete of (s, v) is folded
SoftDeleteVisible(c, s, v) ==
    /\ ~DictHas(get_schemas(c, s, FALSE), v)
    /\ DictHas(get_schemas(c, s, TRUE), v)
    /\ DictGet(get_schemas(c, s, TRUE), v).deleted

\* what the listings show once the hard delete of (s, v) is folded
HardDeleteVisible(c, s, v) ==
    /\ ~DictHas(get_schemas(c, s, FALSE), v)
    /\ ~DictHas(get_schemas(c, s, TRUE), v)

\* the step folds the hard delete of the only row left in subject s
LastRowHardDeleted(r, s) ==
    /\ FoldStep(r) /\ IsHardDelete(Folding(r))
    /\ Folding(r).key.subject = s
    /\ s \in DOMAIN reader[r].cat.subjects
    /\ DictKeys(reader[r].cat.subjects[s].schemas) = {Folding(r).key.version}

\* C6 (delete visibility): once the soft delete of (subject, v) is folded the
\* listing without deleted rows omits v and the listing with them shows v as
\* deleted; once its hard delete is folded v is in neither; a subject leaves
\* the catalog exactly when the hard delete of its last row is folded.
C6_DeleteVisibility ==
    [][\A r \in Replicas :
          /\ (FoldStep(r) /\ IsSoftDelete(reader[r].cat, Folding(r))) =>
                 SoftDeleteVisible(reader'[r].cat, Folding(r).value.subject,
                                   Folding(r).value.version)
          /\ (FoldStep(r) /\ IsHardDelete(Folding(r))) =>
                 HardDeleteVisible(reader'[r].cat, Folding(r).key.subject,
                                   Folding(r).key.version)
          /\ \A s \in Subjects :
                 (s \in DOMAIN reader[r].cat.subjects
                    /\ s \notin DOMAIN reader'[r].cat.subjects)
                 <=> LastRowHardDeleted(r, s)]_vars

\* version 1 of s1 was registered, soft-deleted and hard-deleted, and the
\* subject has left the catalog
C6_Witness ==
    /\ log = <<RecA, RecASoftDelete, RecTombstone>>
    /\ reader["r1"].offset = 2
    /\ "s1" \notin DOMAIN reader["r1"].cat.subjects
    /\ HardDeleteVisible(reader["r1"].cat, "s1", 1)

\* the record is the soft delete of the row: it carries the id, type, text and
\* references of the row
SoftDeleteOf(rec, row) ==
    /\ rec.value.id = row.id
    /\ BoundText(rec) = <<row.schema.schema_type, row.schema.schema_str>>
    /\ rec.value.references = row.references

\* a step takes a row out of its subject only by folding its hard delete
RowsLeaveByHardDelete(r) ==
    \A s \in Subjects, v \in 1..MaxLog :
        (HasRow(reader[r].cat, s, v) /\ ~HasRow(reader'[r].cat, s, v)) =>
            /\ FoldStep(r) /\ IsHardDelete(Folding(r))
            /\ Folding(r).key.subject = s /\ Folding(r).key.version = v

\* folding the soft delete of a row changes nothing of the row but its flag,
\* and schemas_get returns the schema of the row as before
SoftDeleteOnlyMarks(r) ==
    LET rec == Folding(r)
        s == rec.value.subject
        v == rec.value.version
        c == reader[r].cat
    IN (/\ FoldStep(r) /\ IsSoftDelete(c, rec) /\ HasRow(c, s, v)
        /\ SoftDeleteOf(rec, RowOf(c, s, v))) =>
           /\ RowOf(reader'[r].cat, s, v) = [RowOf(c, s, v) EXCEPT !.deleted = TRUE]
           /\ schemas_get(reader'[r].cat, rec.value.id) = <<RowOf(c, s, v).schema>>

\* folding DELETE_SUBJECT(s, v) marks the rows of s up to v, leaves the other
\* rows as they are and leaves schemas_by_id as it is
DeleteSubjectOnlyMarks(r) ==
    LET rec == Folding(r)
        c == reader[r].cat
    IN (/\ FoldStep(r) /\ rec.key.ok /\ rec.key.keytype = "DELETE_SUBJECT"
        /\ Handled(c, rec)) =>
           /\ reader'[r].cat.schemas = c.schemas
           /\ \A s \in Subjects, v \in 1..MaxLog :
                  HasRow(c, s, v) =>
                      RowOf(reader'[r].cat, s, v) =
                          IF s = rec.value.subject /\ v <= rec.value.version
                          THEN [RowOf(c, s, v) EXCEPT !.deleted = TRUE]
                          ELSE RowOf(c, s, v)

\* every row, deleted or not, has its id bound in schemas_by_id
RowIdsBound(c) == \A row \in AllRows(c) : schemas_get(c, row.id) # <<>>

-----------------------------------------------------------------------------
(* Replay: batches, malformed records, replicas *)

\* replica r has consumed the whole topic: its offset is seeded, its consumer
\* stands at the end and nothing polled is left to handle
Consumed(r) ==
    /\ reader[r].offset # OFFSET_UNINITIALIZED
    /\ reader[r].position = Len(log)
    /\ reader[r].raw_msgs = <<>>

\* the for loop of handle_messages over a polled batch
RECURSIVE handle_messages(_)
handle_messages(rd) ==
    IF rd.raw_msgs = <<>> THEN rd ELSE handle_messages(FoldMsg(rd, Head(rd.raw_msgs)))

\* the reader after one poll that returns the whole topic
FoldedAtOnce ==
    handle_messages([InitReader EXCEPT
                       !.offset = get_beginning_offset(TRUE),
                       !.raw_msgs = [i \in 1..Len(log) |-> i - 1],
                       !.position = Len(log)])

\* C8 (replica convergence): two replicas that have consumed the same prefix
\* of the topic hold equal schemas_by_id and subjects, whatever their master
\* status and the grouping of their polls.
C8_ReplicasConverge ==
    \A r, q \in Replicas :
        (Consumed(r) /\ Consumed(q)) =>
            /\ reader[r].cat.schemas = reader[q].cat.schemas
            /\ reader[r].cat.subjects = reader[q].cat.subjects

\* C9 (deterministic fold): however the polls grouped the records, the catalog
\* and the offset after the topic is consumed are those of folding the topic
\* at once.
C9_DeterministicFold ==
    \A r \in Replicas :
        Consumed(r) =>
            /\ reader[r].cat = FoldedAtOnce.cat
            /\ reader[r].offset = FoldedAtOnce.offset

\* the left fold of the handlers over the records, a malformed record (not
\* JSON, or one whose handler raises) leaving the catalog as it is
RECURSIVE SkipFold(_, _)
SkipFold(c, recs) ==
    IF recs = <<>> THEN c
    ELSE SkipFold(IF Handled(c, Head(recs))
                  THEN handle_msg(c, Head(recs).key, Head(recs).value).c
                  ELSE c,
                  Tail(recs))

\* the offsets of the records that are well-formed where they stand in the topic
WellFormedOffsets ==
    {o \in 0..(Len(log) - 1) : Handled(SkipFold(EmptyCatalog, SubSeq(log, 1, o)), log[o + 1])}

\* C10 (replay robustness): a malformed record is skipped alone; every
\* well-formed record after it, in the same poll batch or not, is folded and
\* the offset moves on to it.
C10_MalformedSkippedAlone ==
    \A r \in Replicas :
        Consumed(r) =>
            /\ reader[r].cat = SkipFold(EmptyCatalog, log)
            /\ \A o \in WellFormedOffsets : reader[r].offset >= o


-----------------------------------------------------------------------------
(* Readiness *)

\* a turn of the loop of run() whose requests to the broker are answered
DoPollAnswered(R) == \E r \in R, k \in 0..MaxBatch : Poll(r, k, TRUE, TRUE)

\* SpecReplayFair: the replay of SpecReplay with the reader thread scheduled
\* for ever and the broker answering again and again
SpecReplayFair ==
    /\ Init /\ [][NextReplay]_vars
    /\ WF_vars(DoPollAnswered({"r1"}))
    /\ WF_vars(DoFold({"r1"}))

\* C11 (readiness liveness): with the reader scheduled and the broker
\* answering, once nothing more is appended to the topic ready becomes true,
\* whatever the topic holds.
C11_ReadyEventually == <>(reader["r1"].ready)


-----------------------------------------------------------------------------
(* Appends and the gate *)

\* the step appends a record to the log on behalf of a request of replica r
AppendBy(r) == Len(log') > Len(log) /\ registry'[r] # registry[r]

\* C12 (only the master appends): whenever a request of a replica appends a
\* record, the coordinator reports am_master = true for that replica and its
\* reader is ready in the state the append is made from, however mastership
\* changes interleave with get_master and the later append
C12_OnlyMasterAppends ==
    [][\A r \in Replicas : AppendBy(r) => (mc[r] = "true" /\ reader[r].ready)]_vars

-----------------------------------------------------------------------------
(* Rejected registrations *)

\* write_new_schema_local reaches the compatibility check of new_schema on
\* subject and the newest live version of the subject, which is in the check
\* set in every mode, is incompatible with it
FoundIncompatible(c, subject, new_schema) ==
    LET live == get_schemas(c, subject, FALSE)
    IN /\ live # <<>>
       /\ StrOf(new_schema) # Err
       /\ get_schema_id_if_exists(c, subject, new_schema) = 0
       /\ get_compatibility_mode(c, c.subjects[subject]) \in CompatibilityModes
       /\ is_incompatible(DictGet(live, SetMax(DictKeys(live))).schema, new_schema,
                          get_compatibility_mode(c, c.subjects[subject]))

\* the registration of a step of r raises IncompatibleSchema when it finds the
\* schema incompatible, and a registration that raises it appends nothing
\* and leaves the catalog (subjects, schemas, global_schema_id, fast-match
\* map) as it was
RejectedCleanly(r) ==
    /\ FoundIncompatible(reader[r].cat, hist'[r].subject, hist'[r].schema) =>
           hist'[r].outcome = "raised" /\ hist'[r].error = "IncompatibleSchema"
    /\ hist'[r].error = "IncompatibleSchema" =>
           /\ hist'[r].outcome = "raised"
           /\ log' = log
           /\ reader' = reader

\* C13 (rejected registration has no effect): a registration whose schema is
\* incompatible with a version of the check set raises IncompatibleSchema,
\* appends no record and leaves subjects, schemas_by_id, global_schema_id and
\* the fast-match map unchanged
C13_RejectedNoEffect == [][\A r \in Replicas : RegisterStep(r) => RejectedCleanly(r)]_vars

\* a registration has been rejected as incompatible while the subject has a
\* live version and the topic holds its record
C13_Witness ==
    /\ hist["r1"].op = "register"
    /\ hist["r1"].outcome = "raised"
    /\ hist["r1"].error = "IncompatibleSchema"
    /\ FoundIncompatible(reader["r1"].cat, hist["r1"].subject, hist["r1"].schema)
    /\ Len(log) > 0

-----------------------------------------------------------------------------
(* Barrier timeout *)

\* the record whose barrier wait of replica r timed out last
TimedOutRecord(r) == log[registry[r].timed_offset + 1]

\* a barrier wait of r for a registration record has timed out, the record is
\* the last one of its subject in the topic and the reader of r has consumed it
TimedOutConsumed(r) ==
    /\ registry[r].timed_offset >= 0
    /\ TimedOutRecord(r).key.keytype = "SCHEMA"
    /\ TimedOutRecord(r).value.kind = "obj"
    /\ ~TimedOutRecord(r).value.deleted
    /\ \A j \in DOMAIN log :
           j > registry[r].timed_offset + 1 =>
               log[j].key.subject # TimedOutRecord(r).key.subject
    /\ reader[r].position > registry[r].timed_offset
    /\ \A i \in DOMAIN reader[r].raw_msgs : reader[r].raw_msgs[i] # registry[r].timed_offset

\* the step ends a barrier wait of r that did not see its offset
TimeoutStep(r) ==
    /\ registry[r].pc = "waiting" /\ registry'[r].pc = "idle"
    /\ registry[r].sent_offset > reader[r].greatest_offset

\* the projection of r holds the row of the timed-out record
TimedOutFolded(r) ==
    LET rec == TimedOutRecord(r)
        live == get_schemas(reader[r].cat, rec.key.subject, FALSE)
    IN /\ DictHas(live, rec.value.version)
       /\ DictGet(live, rec.value.version).id = rec.value.id

\* the step registers again, on r, the schema and subject of the timed-out record
RegistersAgain(r) ==
    /\ RegisterStep(r)
    /\ hist'[r].subject = TimedOutRecord(r).key.subject
    /\ hist'[r].schema.schema_type = TimedOutRecord(r).value.schemaType
    /\ hist'[r].schema.schema_str = TimedOutRecord(r).value.schema

\* C14 (barrier timeout): a barrier wait that does not see its offset ends
\* with an error for the caller and leaves the record in the topic; once the
\* reader has consumed the record its row is in the projection, and a later
\* registration of the same schema on the same subject returns the id of the
\* record and appends nothing
C14_BarrierTimeout ==
    [][\A r \in Replicas :
          /\ TimeoutStep(r) => hist'[r].outcome = "timeout" /\ log' = log
          /\ registry[r].timed_offset >= 0 =>
                 /\ Len(log') >= Len(log)
                 /\ log'[registry[r].timed_offset + 1] = TimedOutRecord(r)
          /\ TimedOutConsumed(r) => TimedOutFolded(r)
          /\ (TimedOutConsumed(r) /\ RegistersAgain(r)) =>
                 /\ hist'[r].outcome = "returned"
                 /\ hist'[r].id = TimedOutRecord(r).value.id
                 /\ log' = log]_vars

-----------------------------------------------------------------------------
(* Registrations under schema_lock.  A handler holds schema_lock from its   *)
(* first read of the projection to the return of send_schema_message, that  *)
(* is while registry[r].pc is not "idle"; a registration that arrives       *)
(* meanwhile on the same replica runs when the lock is released.            *)

\* the last record of the topic
LastRecord == log[Len(log)]

\* the schema a registration record was written for
WrittenSchema(rec) == TypedSchema(rec.value.schemaType, rec.value.schema, NoRefs, TRUE)

\* the step is a registration on r that got schema_lock after a registration
\* of the same subject, which appended the last record of the topic
RegistersNext(r) ==
    /\ RegisterStep(r)
    /\ Len(log) > 0
    /\ IsRegistration(LastRecord, hist'[r].subject)

\* what the second of two registrations does, given what the first appended
SecondRegistration(r) ==
    LET first == LastRecord
        new_schema == hist'[r].schema
    IN /\ (/\ first.value.schemaType = new_schema.schema_type
           /\ first.value.schema = new_schema.schema_str)
          => /\ log' = log
             /\ hist'[r].outcome = "returned"
             /\ hist'[r].id = first.value.id
       /\ (/\ \/ first.value.schemaType # new_schema.schema_type
              \/ StrOf(WrittenSchema(first)) # StrOf(new_schema)
           /\ log' # log)
          => /\ log'[Len(log')].value.version # first.value.version
             /\ log'[Len(log')].value.id # first.value.id

\* C15 (serialized registration): of two registrations that meet on a replica
\* the second decides after the barrier wait of the first has ended; if the
\* schemas differ their records carry different versions and different ids,
\* if the schema is the same the second appends nothing and returns the id
\* of the record of the first
C15_SerializedRegistration ==
    [][\A r \in Replicas : RegistersNext(r) => SecondRegistration(r)]_vars

-----------------------------------------------------------------------------
(* The delete state machine.  SpecDeletes: one replica serving the          *)
(* registration of one schema and the deletes of its subject                 *)

NextDeletes ==
    \/ DoPoll({"r1"})
    \/ DoFold({"r1"})
    \/ DoMasterChange({"r1"})
    \/ DoGate({"r1"})
    \/ DoRegister({"r1"}, {"s1"}, {SchemaA})
    \/ DoVersionDelete({"r1"}, {"s1"})
    \/ DoSubjectDelete({"r1"}, {"s1"})
    \/ DoBarrierReturn({"r1"})
    \/ DoBarrierTimeout({"r1"})

SpecDeletes == Init /\ [][NextDeletes]_vars

\* the request of the step is rejected with error e and appends nothing
Rejected(r, e) ==
    /\ hist'[r].outcome = "raised"
    /\ hist'[r].error = e
    /\ log' = log

\* the version a delete request names; 0 is "latest"
NamedVersion(c, s, v) == IF v = 0 THEN SetMax(DictKeys(c.subjects[s].schemas)) ELSE v

\* subject_version_delete_local refuses to soft-delete a soft-deleted version
\* and to hard-delete a version that is not soft-deleted
VersionDeleteChecked(r, s, v, p) ==
    LET c == reader[r].cat
    IN (/\ subject_version_delete_local(r, s, v, p)
        /\ s \in DOMAIN c.subjects
        /\ HasRow(c, s, NamedVersion(c, s, v)))
       => /\ (RowOf(c, s, NamedVersion(c, s, v)).deleted /\ ~p)
                => Rejected(r, "SchemaVersionSoftDeleted")
          /\ (~RowOf(c, s, NamedVersion(c, s, v)).deleted /\ p)
                => Rejected(r, "SchemaVersionNotSoftDeleted")

\* subject_delete_local refuses to hard-delete a subject with a live version
SubjectDeleteChecked(r, s, p) ==
    LET c == reader[r].cat
    IN (/\ subject_delete_local(r, s, p)
        /\ p
        /\ s \in DOMAIN c.subjects
        /\ \E i \in DOMAIN c.subjects[s].schemas : ~c.subjects[s].schemas[i][2].deleted)
       => Rejected(r, "SubjectNotSoftDeleted")

\* the step is a run of one of the two delete operations on replica r
DeleteStep(r) == registry[r].pc = "gated" /\ hist'[r].op = "delete"

\* a tombstone that a request of r appends names a row that the projection
\* of r holds as soft-deleted
TombstoneTargetsSoftDeleted(r) ==
    (AppendBy(r) /\ IsHardDelete(log'[Len(log')]))
    => LET key == log'[Len(log')].key
       IN /\ HasRow(reader[r].cat, key.subject, key.version)
          /\ RowOf(reader[r].cat, key.subject, key.version).deleted

\* C16 (delete state machine): a version delete without permanent on a
\* soft-deleted version raises SchemaVersionSoftDeleted, a permanent one on a
\* version that is not soft-deleted raises SchemaVersionNotSoftDeleted, a
\* permanent subject delete on a subject with a live version raises
\* SubjectNotSoftDeleted; a rejected request appends nothing and every
\* tombstone appended names a row soft-deleted in the local projection
C16_DeleteStateMachine ==
    [][\A r \in Replicas :
          /\ DeleteStep(r) =>
                 /\ \A s \in Subjects, v \in 0..MaxLog, p \in BOOLEAN :
                        VersionDeleteChecked(r, s, v, p)
                 /\ \A s \in Subjects, p \in BOOLEAN : SubjectDeleteChecked(r, s, p)
                 /\ hist'[r].outcome = "raised" => log' = log
          /\ TombstoneTargetsSoftDeleted(r)]_vars

\* a delete request of r1 has appended a tombstone, after which a delete
\* request of r1 was rejected for the state the row is in
C16_Witness ==
    /\ \E i \in DOMAIN log : IsHardDelete(log[i])
    /\ hist["r1"].op = "delete"
    /\ hist["r1"].outcome = "raised"
    /\ hist["r1"].error \in {"SchemaVersionSoftDeleted", "SchemaVersionNotSoftDeleted",
                             "SubjectNotSoftDeleted"}

-----------------------------------------------------------------------------
(* Lookups *)

\* the versions of the rows of subject s that are not deleted
LiveVersions(c, s) ==
    IF s \notin DOMAIN c.subjects THEN {}
    ELSE {c.subjects[s].schemas[i][1] :
            i \in {j \in DOMAIN c.subjects[s].schemas : ~c.subjects[s].schemas[j][2].deleted}}

\* the lookup of the step raised e
LookupRaised(r, e) == hist'[r].outcome = "raised" /\ hist'[r].error = e

\* the lookup of the step returned the row of version v
LookupReturned(r, s, v) ==
    /\ hist'[r].outcome = "returned"
    /\ hist'[r].version = v
    /\ hist'[r].id = RowOf(reader[r].cat, s, v).id
    /\ hist'[r].schema = RowOf(reader[r].cat, s, v).schema

\* what a lookup of version v (0 for "latest") of subject s answers on r
LookupChecked(r, s, v) ==
    LET c == reader[r].cat
        live == LiveVersions(c, s)
    IN Lookup(r, s, v) =>
         /\ s \notin DOMAIN c.subjects => LookupRaised(r, "SubjectNotFound")
         /\ (s \in DOMAIN c.subjects /\ live = {}) => LookupRaised(r, "SchemasNotFound")
         /\ (live # {} /\ v # 0 /\ v \notin live) => LookupRaised(r, "VersionNotFound")
         /\ (live # {} /\ v = 0) => LookupReturned(r, s, SetMax(live))
         /\ v \in live => LookupReturned(r, s, v)

\* C17 (lookup outcomes): subject_version_get raises SubjectNotFound for a
\* subject that is not in the catalog, SchemasNotFound for a subject without
\* a non-deleted version, VersionNotFound for a number that is not a
\* non-deleted version of the subject (above the maximum, hard-deleted or
\* soft-deleted); "latest" returns the highest non-deleted version
C17_LookupOutcomes ==
    [][\A r \in Replicas, s \in Subjects, v \in 0..MaxLog : LookupChecked(r, s, v)]_vars

\* a lookup raised VersionNotFound on a subject whose highest row is
\* soft-deleted below a live one
C17_Witness ==
    /\ hist["r1"].op = "lookup"
    /\ hist["r1"].outcome = "raised" /\ hist["r1"].error = "VersionNotFound"
    /\ LiveVersions(reader["r1"].cat, "s1") = {1}
    /\ HasRow(reader["r1"].cat, "s1", 2)

-----------------------------------------------------------------------------
(* SpecIds: a master registers schemas while another producer writes        *)
(* records with ids of its own to the same topic                             *)

IdsPool == {RecB, RecProto}

NextIds ==
    \/ Produce(IdsPool)
    \/ DoPoll({"r1"})
    \/ DoFold({"r1"})
    \/ DoMasterChange({"r1"})
    \/ DoGate({"r1"})
    \/ DoRegister({"r1"}, {"s1"}, {SchemaA, SchemaB})
    \/ DoBarrierReturn({"r1"})
    \/ DoBarrierTimeout({"r1"})

SpecIds == Init /\ [][NextIds]_vars

\* global_schema_id is at least every id bound in schemas and every id of a row
IdsBelowGlobal ==
    \A r \in Replicas :
        LET c == reader[r].cat
        IN /\ \A id \in DictKeys(c.schemas) : id <= c.global_schema_id
           /\ \A s \in DOMAIN c.subjects : \A i \in DOMAIN c.subjects[s].schemas :
                  c.subjects[s].schemas[i][2].id <= c.global_schema_id

\* a step does not lower global_schema_id
GlobalIdMonotone ==
    \A r \in Replicas : reader'[r].cat.global_schema_id >= reader[r].cat.global_schema_id

\* C18 (global id bound): in every reachable state global_schema_id is >=
\* every id bound in schemas_by_id and every id of a row of any subject, and
\* no step of the projector or of the registration pipeline lowers it
C18_GlobalIdBound == []IdsBelowGlobal /\ [][GlobalIdMonotone]_vars

\* the pipeline has assigned id 1 and the projector has then folded a record
\* of another producer that carries id 2 and a record that carries id 1
C18_Witness ==
    /\ Len(log) = 3
    /\ reader["r1"].offset = 2
    /\ reader["r1"].cat.global_schema_id = 2
    /\ DictKeys(reader["r1"].cat.schemas) = {1, 2}
    /\ \E i \in DOMAIN log : log[i] \notin IdsPool

-----------------------------------------------------------------------------
(* SpecWatcher: the OffsetsWatcher of each replica on its own, with threads *)
(* that pass it offsets in any order and threads that wait for an offset     *)

NextWatcher ==
    \/ DoOffsetSeen(Replicas)
    \/ DoWaitForOffset(Replicas)
    \/ DoBarrierReturn(Replicas)
    \/ DoBarrierTimeout(Replicas)

SpecWatcher == Init /\ [][NextWatcher]_vars

\* the step ends a wait of a thread on the watcher of r
WaitEnds(r) == hist[r].outcome = "pending" /\ hist'[r].outcome # "pending"

\* greatest_offset after offset_seen is the maximum of what it was and the
\* offset passed, and no step lowers it
WatcherKeepsMaximum(r) ==
    /\ \A o \in 0..MaxLog - 1 :
           OffsetSeen(r, o) =>
               /\ reader'[r].greatest_offset >= o
               /\ reader'[r].greatest_offset >= reader[r].greatest_offset
               /\ reader'[r].greatest_offset \in {o, reader[r].greatest_offset}
    /\ reader'[r].greatest_offset >= reader[r].greatest_offset

\* wait_for_offset returns True only with greatest_offset >= the target, at
\* once when that holds at the call, and returns False only after waiting
\* with greatest_offset below the target
WaitAnswers(r) ==
    /\ \A o \in 0..MaxLog - 1 :
           (WaitForOffset(r, o) /\ o <= reader[r].greatest_offset)
               => hist'[r].outcome = "returned" /\ registry'[r].pc = "idle"
    /\ (hist'[r].op = "wait" /\ hist'[r] # hist[r] /\ hist'[r].outcome = "returned")
           => hist'[r].offset <= reader[r].greatest_offset
    /\ (WaitEnds(r) /\ hist'[r].outcome = "timeout")
           => hist'[r].offset > reader[r].greatest_offset

\* a thread that waits for an offset the watcher has reached has been woken:
\* it can return, and it cannot time out
WaiterWoken(r) ==
    (registry[r].pc = "waiting" /\ registry[r].sent_offset <= reader[r].greatest_offset)
        => ENABLED BarrierReturn(r) /\ ~ENABLED BarrierTimeout(r)

-----------------------------------------------------------------------------
(* Signalling the offset watcher.  SpecSignal: a replica replays a topic    *)
(* while its master status changes under it                                  *)

NextSignal ==
    \/ Produce({RecA, RecB})
    \/ DoPoll({"r1"})
    \/ DoFold({"r1"})
    \/ DoMasterChange({"r1"})

SpecSignal == Init /\ [][NextSignal]_vars

\* the step folds a record that reaches its handler, and the handler returns
FoldsRecord(r) == FoldStep(r) /\ Handled(reader[r].cat, Folding(r))

\* the fold step passes the offset of its record to offset_seen
Signalled(r) == reader'[r].greatest_offset = Head(reader[r].raw_msgs)

\* the fold step leaves the watcher alone
NotSignalled(r) == reader'[r].greatest_offset = reader[r].greatest_offset

-----------------------------------------------------------------------------
(* The write gate.  SpecGate: requests call get_master on a replica that    *)
(* replays a topic while its master status changes; the ones told True      *)
(* register a schema                                                         *)

NextGate ==
    \/ Produce({RecB})
    \/ DoPoll({"r1"})
    \/ DoFold({"r1"})
    \/ DoMasterChange({"r1"})
    \/ DoGate({"r1"})
    \/ DoForward({"r1"})
    \/ DoRegister({"r1"}, {"s1"}, {SchemaA})
    \/ DoBarrierReturn({"r1"})
    \/ DoBarrierTimeout({"r1"})

SpecGate == Init /\ [][NextGate]_vars

\* the step is a return of get_master to a request of r with am_master True
ToldMaster(r) == registry[r].pc = "idle" /\ registry'[r].pc = "gated"

\* the step is a return of get_master to a request of r with am_master False
ToldFollower(r) ==
    /\ registry[r].pc = "idle"
    /\ hist'[r].op = "get_master" /\ hist'[r].outcome = "forward"
    /\ hist'[r] # hist[r]

\* get_master returns from a state with a known master status and ready true
GateReturnsChecked(r) ==
    /\ ToldMaster(r) => mc[r] = "true" /\ reader[r].ready
    /\ ToldFollower(r) => mc[r] = "false" /\ reader[r].ready

\* while the master status is unknown or the reader is not ready get_master
\* cannot return
GateHolds(r) ==
    (mc[r] = "none" \/ ~reader[r].ready) => ~ENABLED Gate(r) /\ ~ENABLED Forward(r)

\* C21 (write gate): get_master returns only where the coordinator reports a
\* known master status and the reader is ready, and does not return while
\* either fails; a request told am_master = true has seen ready = true
C21_WriteGate ==
    /\ []\A r \in Replicas : GateHolds(r)
    /\ [][\A r \in Replicas : GateReturnsChecked(r)]_vars

\* a request has passed the gate on a ready master after records were folded
C21_Witness ==
    /\ registry["r1"].pc = "gated"
    /\ reader["r1"].ready
    /\ reader["r1"].offset >= 0

-----------------------------------------------------------------------------
(* Mastership handover.  SpecHandover: replica r1 follows the topic that    *)
(* the master of the time writes; when it is elected itself it serves       *)
(* registrations.  The other replica writes only while r1 is not master.    *)

HandoverPool == {RecA}

\* the master of the time, another replica, registers the first schema of
\* the topic
ProduceByMaster(pool) == mc["r1"] # "true" /\ log = <<>> /\ Produce(pool)

NextHandover ==
    \/ ProduceByMaster(HandoverPool)
    \/ DoPoll({"r1"})
    \/ DoFold({"r1"})
    \/ DoMasterChange({"r1"})
    \/ DoGate({"r1"})
    \/ DoRegister({"r1"}, {"s1"}, {SchemaA, SchemaB})
    \/ DoBarrierReturn({"r1"})
    \/ DoBarrierTimeout({"r1"})

SpecHandover == Init /\ [][NextHandover]_vars

\* the step is a registration of r that appends its record while the
\* coordinator reports r as master
RegistersAsMaster(r) == RegisterStep(r) /\ AppendBy(r) /\ mc[r] = "true"

\* the id of the record appended by the step is not bound to another text by
\* a record already in the topic
FreshOrSameId ==
    \A i \in DOMAIN log :
        (BindsId(log[i]) /\ log[i].value.id = log'[Len(log')].value.id)
            => BoundText(log[i]) = BoundText(log'[Len(log')])

\* C22 (id uniqueness across a handover): a replica that passed the write
\* gate and is master never takes from get_schema_id an id that a record of
\* the topic already binds to a different schema, so no two records of the
\* topic bind one id to different canonical texts
C22_IdsUniqueAcrossHandover ==
    /\ []IdsConsistent
    /\ [][\A r \in Replicas : RegistersAsMaster(r) => FreshOrSameId]_vars

\* no record of the topic holds the (subject, version) of the record appended
\* by the step with a different schema
FreshOrSameVersion ==
    LET new == log'[Len(log')]
    IN \A i \in DOMAIN log :
           (/\ IsRegistration(log[i], new.key.subject)
            /\ log[i].key.version = new.key.version)
               => BoundText(log[i]) = BoundText(new)

\* the versions of the registrations of every subject increase along the topic
VersionsIncrease ==
    \A s \in Subjects : \A i, j \in DOMAIN RegVersions(s) :
        i < j => RegVersions(s)[i] < RegVersions(s)[j]

\* C23 (version uniqueness across a handover): no replica that is master
\* appends a registration for a (subject, version) that a record of the topic
\* it has not folded yet already holds with a different schema, and the
\* versions of a subject are strictly increasing in the order of the topic
C23_VersionsUniqueAcrossHandover ==
    /\ []VersionsIncrease
    /\ [][\A r \in Replicas : RegistersAsMaster(r) => FreshOrSameVersion]_vars

-----------------------------------------------------------------------------
(* The ready flag *)

\* ready turns true only in a poll step, with the offset of the reader at
\* the end of the topic as end_offsets reports it after the poll
ReadySetAtEnd(r) ==
    (~reader[r].ready /\ reader'[r].ready)
        => /\ reader[r].raw_msgs = <<>>
           /\ log' = log
           /\ reader'[r].offset # OFFSET_UNINITIALIZED
           /\ reader'[r].offset >= Len(log) - 1

\* ready stays false in a turn of the loop whose end_offsets request fails
ReadyNeedsEndOffset(r) ==
    \A k \in 0..MaxBatch, b \in BOOLEAN :
        (~reader[r].ready /\ Poll(r, k, b, FALSE)) => ~reader'[r].ready

\* ready does not go back to false
ReadyLatched(r) == reader[r].ready => reader'[r].ready

\* C24 (ready latch): ready becomes true only where the offset of the
\* projector is >= end offset - 1 for an end offset read after the latest
\* poll, stays false while reading the end offset fails, and once true never
\* becomes false again, whatever is appended afterwards
C24_ReadyLatch ==
    [][\A r \in Replicas :
          ReadySetAtEnd(r) /\ ReadyNeedsEndOffset(r) /\ ReadyLatched(r)]_vars

\* the reader became ready after folding a record and records appended
\* since then are not folded yet
C24_Witness ==
    /\ reader["r1"].ready
    /\ reader["r1"].offset >= 0
    /\ Len(log) - 1 > reader["r1"].offset

-----------------------------------------------------------------------------
(* SpecConfig: a replica replays a topic of CONFIG records of the global    *)
(* scope and of one subject, with and without a value                        *)

RecConfigGlobal == config_message("NONE", NoSubject)
RecConfigGlobalNull == Record(Key("CONFIG", NoSubject, 0), NoValue)
RecConfigSubject == config_message("BACKWARD_TRANSITIVE", "s1")
RecConfigSubjectNull == Record(Key("CONFIG", "s1", 0), NoValue)
RecConfigSubjectEmpty ==
    Record(Key("CONFIG", "s1", 0), [NoValue EXCEPT !.kind = "obj"])

ConfigPool ==
    {RecA, RecConfigGlobal, RecConfigGlobalNull, RecConfigSubject,
     RecConfigSubjectNull, RecConfigSubjectEmpty}

NextConfig ==
    \/ Produce(ConfigPool)
    \/ DoPoll({"r1"})
    \/ DoFold({"r1"})

SpecConfig == Init /\ [][NextConfig]_vars

\* the step folds a CONFIG record whose key and value are readable JSON
FoldsConfig(r) ==
    /\ FoldStep(r)
    /\ Folding(r).key.ok
    /\ Folding(r).key.keytype = "CONFIG"
    /\ Folding(r).value.kind # "badjson"

\* a record value that is null, empty bytes or an empty object
EmptyConfigValue(value) == value.kind = "none" \/ value.has = {}

\* the schema table of a subject, empty for a subject the catalog lacks
SchemaTable(c, s) == IF s \in DOMAIN c.subjects THEN c.subjects[s].schemas ELSE <<>>

\* the compatibility of the scope a CONFIG key names
ScopeCompatibility(c, key) ==
    IF key.subject = NoSubject THEN c.compatibility
    ELSE IF key.subject \in DOMAIN c.subjects THEN c.subjects[key.subject].compatibility
    ELSE "NO SUBJECT"

\* the compatibility of a scope that no CONFIG record has set
ClearedCompatibility(key) ==
    IF key.subject = NoSubject THEN EmptyCatalog.compatibility ELSE Absent

\* a CONFIG record with a value sets the compatibility of its scope
ConfigSets(r) ==
    (FoldsConfig(r) /\ ~EmptyConfigValue(Folding(r).value))
        => ScopeCompatibility(reader'[r].cat, Folding(r).key)
             = Folding(r).value.compatibilityLevel

\* a CONFIG record without a value clears the compatibility of its scope
ConfigClears(r) ==
    (FoldsConfig(r) /\ EmptyConfigValue(Folding(r).value))
        => ScopeCompatibility(reader'[r].cat, Folding(r).key)
             = ClearedCompatibility(Folding(r).key)

\* a CONFIG record leaves every schema table and schemas_by_id alone
ConfigKeepsSchemas(r) ==
    FoldsConfig(r)
        => /\ reader'[r].cat.schemas = reader[r].cat.schemas
           /\ \A s \in Subjects :
                SchemaTable(reader'[r].cat, s) = SchemaTable(reader[r].cat, s)
           /\ DOMAIN reader'[r].cat.subjects
                = DOMAIN reader[r].cat.subjects
                    \cup ({Folding(r).key.subject} \ {NoSubject})

\* C25 (CONFIG fold): a CONFIG record with a value sets the compatibility of
\* its scope (the global default for a null subject, else the named subject,
\* created with an empty schema table if absent) to compatibilityLevel; one
\* with an empty or null value clears the compatibility of that scope, the
\* global one as well as a subject's; schemas_by_id and all schema rows are
\* unchanged
C25_ConfigFold ==
    [][\A r \in Replicas :
          ConfigSets(r) /\ ConfigClears(r) /\ ConfigKeepsSchemas(r)]_vars

-----------------------------------------------------------------------------
(* The frame of DELETE_SUBJECT *)

\* the step folds a DELETE_SUBJECT record whose key and value are readable
FoldsDeleteSubject(r) ==
    /\ FoldStep(r)
    /\ Folding(r).key.ok
    /\ Folding(r).key.keytype = "DELETE_SUBJECT"
    /\ Folding(r).value.kind # "badjson"

\* the record names a subject of the catalog and a version
DeleteSubjectApplies(c, rec) ==
    /\ rec.value.kind = "obj"
    /\ {"subject", "version"} \subseteq rec.value.has
    /\ rec.value.subject \in DOMAIN c.subjects

\* the fast-match keys of the rows of subject s with a version up to v
MarkedKeys(c, s, v) ==
    {FmKey(s, c.subjects[s].schemas[i][2].schema) :
        i \in {j \in DOMAIN c.subjects[s].schemas : c.subjects[s].schemas[j][1] <= v}}

\* the rows up to the version are marked and the other rows are as before
DeleteSubjectMarksRows(r) ==
    LET rec == Folding(r)
        c == reader[r].cat
    IN (FoldsDeleteSubject(r) /\ DeleteSubjectApplies(c, rec)) =>
           /\ DOMAIN reader'[r].cat.subjects = DOMAIN c.subjects
           /\ \A s \in DOMAIN c.subjects :
                  /\ DictKeyList(reader'[r].cat.subjects[s].schemas)
                       = DictKeyList(c.subjects[s].schemas)
                  /\ reader'[r].cat.subjects[s].compatibility = c.subjects[s].compatibility
           /\ \A s \in Subjects, v \in 1..MaxLog :
                  HasRow(c, s, v) =>
                      RowOf(reader'[r].cat, s, v) =
                          IF s = rec.value.subject /\ v <= rec.value.version
                          THEN [RowOf(c, s, v) EXCEPT !.deleted = TRUE]
                          ELSE RowOf(c, s, v)

\* the fast-match entries of the marked rows are removed and no other entry
\* is touched
DeleteSubjectPopsMarked(r) ==
    LET rec == Folding(r)
        c == reader[r].cat
        gone == MarkedKeys(c, rec.value.subject, rec.value.version)
    IN (FoldsDeleteSubject(r) /\ DeleteSubjectApplies(c, rec)) =>
           /\ DOMAIN reader'[r].cat.on_subject = DOMAIN c.on_subject \ gone
           /\ \A k \in DOMAIN reader'[r].cat.on_subject :
                  reader'[r].cat.on_subject[k] = c.on_subject[k]

\* schemas_by_id, global_schema_id and the global compatibility are as before
DeleteSubjectKeepsIds(r) ==
    FoldsDeleteSubject(r) =>
        /\ reader'[r].cat.schemas = reader[r].cat.schemas
        /\ reader'[r].cat.global_schema_id = reader[r].cat.global_schema_id
        /\ reader'[r].cat.referenced_by = reader[r].cat.referenced_by
        /\ reader'[r].cat.compatibility = reader[r].cat.compatibility

\* a record without a value or for a subject the catalog lacks changes nothing
DeleteSubjectUnknown(r) ==
    LET rec == Folding(r)
        c == reader[r].cat
    IN (/\ FoldsDeleteSubject(r)
        /\ \/ rec.value.kind = "none"
           \/ /\ "subject" \in rec.value.has
              /\ rec.value.subject \notin DOMAIN c.subjects) =>
           reader'[r].cat = c

\* C26 (DELETE_SUBJECT frame): folding DELETE_SUBJECT(subject, v) sets
\* deleted=true on exactly the rows of the subject with version <= v and
\* removes the fast-match entries of exactly those rows; rows above v keep
\* their flag and their fast-match entry; other subjects, schemas_by_id and
\* global_schema_id are unchanged; an unknown subject or a missing value
\* leaves the catalog unchanged
C26_DeleteSubjectFrame ==
    [][\A r \in Replicas :
          /\ DeleteSubjectMarksRows(r)
          /\ DeleteSubjectPopsMarked(r)
          /\ DeleteSubjectKeepsIds(r)
          /\ DeleteSubjectUnknown(r)]_vars

-----------------------------------------------------------------------------
(* SpecCompat: registrations on a subject whose versions, soft deletes and  *)
(* compatibility levels come from the topic                                  *)

SchemaC == TypedSchema("AVRO", "{c}", NoRefs, TRUE)

RecC == Record(Key("SCHEMA", "s1", 2), SchemaValue("s1", 2, 2, "{c}", FALSE, "AVRO", NoRefs))
RecCSoftDelete ==
    Record(Key("SCHEMA", "s1", 2), SchemaValue("s1", 2, 2, "{c}", TRUE, "AVRO", NoRefs))
\* a schema written by an earlier release: its record name is not valid
RecLenient ==
    Record(Key("SCHEMA", "s1", 1), SchemaValue("s1", 1, 1, "{n}", FALSE, "AVRO", NoRefs))

CompatPool == {RecA, RecC, RecCSoftDelete, RecLenient, RecConfigSubject, RecConfigGlobal}

NextCompat ==
    \/ Produce(CompatPool)
    \/ DoPoll({"r1"})
    \/ DoFold({"r1"})
    \/ DoMasterChange({"r1"})
    \/ DoGate({"r1"})
    \/ DoRegister({"r1"}, {"s1"}, {SchemaB})
    \/ DoBarrierReturn({"r1"})

SpecCompat == Init /\ [][NextCompat]_vars

\* the compatibility level in force for a subject of the catalog
EffectiveMode(c, s) ==
    IF c.subjects[s].compatibility # Absent THEN c.subjects[s].compatibility
    ELSE c.compatibility

\* the versions the claim puts in the check set
ClaimedCheckSet(c, s) ==
    IF EffectiveMode(c, s) \in {"BACKWARD_TRANSITIVE", "FORWARD_TRANSITIVE", "FULL_TRANSITIVE"}
    THEN LiveVersions(c, s)
    ELSE {SetMax(LiveVersions(c, s))}

\* write_new_schema_local reaches its compatibility loop for new_schema
ReachesCheck(c, s, new_schema) ==
    /\ LiveVersions(c, s) # {}
    /\ StrOf(new_schema) # Err
    /\ get_schema_id_if_exists(c, s, new_schema) = 0
    /\ EffectiveMode(c, s) \in CompatibilityModes

\* the registration of the step is accepted: it appends its record
Accepted(r) == hist'[r].outcome = "pending" /\ Len(log') = Len(log) + 1

\* the registration of a step of r checks the claimed set and is accepted iff
\* no version of the set is incompatible
ChecksClaimedSet(r) ==
    LET c == reader[r].cat
        s == hist'[r].subject
        new == hist'[r].schema
    IN (RegisterStep(r) /\ ReachesCheck(c, s, new)) =>
           /\ check_against(c, c.subjects[s], get_schemas(c, s, FALSE))
                = ClaimedCheckSet(c, s)
           /\ Accepted(r) <=>
                 \A v \in ClaimedCheckSet(c, s) :
                     ~is_incompatible(RowOf(c, s, v).schema, new, EffectiveMode(c, s))

\* C27 (compatibility check set): for a subject with a live version and no
\* fast-match, write_new_schema_local checks the new schema against all
\* non-deleted versions when the effective mode (the subject's, else the
\* global default) is transitive and against the highest non-deleted version
\* otherwise; soft-deleted versions are never checked; the registration is
\* accepted iff no check of the set is incompatible
C27_CheckSet == [][\A r \in Replicas : ChecksClaimedSet(r)]_vars

\* the stored schema of a version of the check set passes the lenient parse
\* only
LenientOnlyInSet(c, s) ==
    \E v \in ClaimedCheckSet(c, s) :
        /\ ParsedTypedSchema_parse(RowOf(c, s, v).schema.schema_type,
                                   RowOf(c, s, v).schema.schema_str)
        /\ ~ValidatedTypedSchema_parse(RowOf(c, s, v).schema.schema_type,
                                       RowOf(c, s, v).schema.schema_str)

\* no version of the check set is incompatible with the new schema
CompatibleWithSet(c, s, new_schema) ==
    \A v \in ClaimedCheckSet(c, s) :
        ~is_incompatible(RowOf(c, s, v).schema, new_schema, EffectiveMode(c, s))

\* C28 (lenient parse of stored schemas): in the compatibility check every
\* stored schema of the check set is parsed in lenient mode, so a stored
\* schema that only the lenient parser accepts does not make the registration
\* of a compatible new schema fail with a parse error
C28_LenientParse ==
    [][\A r \in Replicas :
          (/\ RegisterStep(r)
           /\ ReachesCheck(reader[r].cat, hist'[r].subject, hist'[r].schema)
           /\ LenientOnlyInSet(reader[r].cat, hist'[r].subject)
           /\ CompatibleWithSet(reader[r].cat, hist'[r].subject, hist'[r].schema))
              => hist'[r].error # "InvalidSchema"]_vars

-----------------------------------------------------------------------------
(* SpecTie: registrations on a replica whose topic binds one schema to two  *)
(* ids                                                                       *)

RecBId2 == Record(Key("SCHEMA", "s2", 1), SchemaValue("s2", 1, 2, "{b}", FALSE, "AVRO", NoRefs))
RecBId1 == Record(Key("SCHEMA", "s2", 2), SchemaValue("s2", 2, 1, "{b}", FALSE, "AVRO", NoRefs))

TiePool == {RecBId2, RecBId1}

NextTie ==
    \/ Produce(TiePool)
    \/ DoPoll({"r1"})
    \/ DoFold({"r1"})
    \/ DoMasterChange({"r1"})
    \/ DoGate({"r1"})
    \/ DoRegister({"r1"}, {"s1"}, {SchemaA, SchemaB})
    \/ DoBarrierReturn({"r1"})

SpecTie == Init /\ [][NextTie]_vars

\* the registration of the step called get_schema_id: it appends a record
\* with the id it obtained
ObtainsId(r) == RegisterStep(r) /\ AppendBy(r)

\* get_schema_id returns the smallest id bound to an equal schema
SmallestEqualId(r) ==
    IdsOf(reader[r].cat, hist'[r].schema) # {} =>
        /\ \A i \in IdsOf(reader[r].cat, hist'[r].schema) : hist'[r].id <= i
        /\ hist'[r].id \in IdsOf(reader[r].cat, hist'[r].schema)
        /\ reader'[r].cat.global_schema_id = reader[r].cat.global_schema_id

\* get_schema_id allocates global_schema_id + 1 when no bound schema is equal
AllocatesWhenNoneEqual(r) ==
    IdsOf(reader[r].cat, hist'[r].schema) = {} =>
        /\ hist'[r].id = reader[r].cat.global_schema_id + 1
        /\ reader'[r].cat.global_schema_id = reader[r].cat.global_schema_id + 1

\* C29 (id lookup tie-break): when several ids of schemas_by_id are bound to
\* schemas equal to the submitted one, get_schema_id returns the smallest of
\* them, whatever the order in which the ids were first bound in the log; it
\* allocates global_schema_id + 1 only when no bound schema is equal
C29_SmallestIdWins ==
    [][\A r \in Replicas :
          ObtainsId(r) => SmallestEqualId(r) /\ AllocatesWhenNoneEqual(r)]_vars

-----------------------------------------------------------------------------
(* SpecRefs: a replica replays a topic of Protobuf registrations, one of    *)
(* which upserts a version with a reference to itself                        *)

RecProtoBase ==
    Record(Key("SCHEMA", "s1", 1), SchemaValue("s1", 1, 1, "pa", FALSE, "PROTOBUF", NoRefs))
RecProtoSelf ==
    Record(Key("SCHEMA", "s1", 1), SchemaValue("s1", 1, 1, "pa", FALSE, "PROTOBUF", RefToS1V1))

RefsPool == {RecProtoBase, RecProtoSelf, RecProto}

NextRefs ==
    \/ Produce(RefsPool)
    \/ DoPoll({"r1"})
    \/ DoFold({"r1"})

SpecRefs == Init /\ [][NextRefs]_vars

\* the step folds a Protobuf registration, whose references _handle_msg_schema
\* resolves
ResolvesReferences(r) ==
    /\ FoldStep(r)
    /\ Folding(r).key.ok
    /\ Folding(r).key.keytype = "SCHEMA"
    /\ Folding(r).value.kind = "obj"
    /\ {"schema", "subject", "id", "version"} \subseteq Folding(r).value.has
    /\ Folding(r).value.schemaType = "PROTOBUF"

\* every reference names a version that the catalog holds
TargetsPresent(c, refs) ==
    \A i \in DOMAIN refs : HasRow(c, refs[i].subject, refs[i].version)

\* resolve_references returns, or raises InvalidReferences; it raises when a
\* reference names a subject or a version that the catalog lacks
ResolverEnds(c, refs) ==
    /\ resolve_outcome(c, refs, MaxLog + 1) \in {"ok", "InvalidReferences"}
    /\ ~TargetsPresent(c, refs) => resolve_outcome(c, refs, MaxLog + 1) = "InvalidReferences"

\* C30 (resolver termination): resolve_references either returns a map with
\* one dependency per reference name or fails with InvalidReferences (target
\* subject or version absent); when the reference edges reachable from its
\* input contain a cycle, as after a record that upserts an existing
\* (subject, version) with a reference to a newer schema, it fails with
\* InvalidReferences instead of recursing without end
C30_ResolverTerminates ==
    [][\A r \in Replicas :
          ResolvesReferences(r)
              => ResolverEnds(reader[r].cat, Folding(r).value.references)]_vars

-----------------------------------------------------------------------------
(* Round trip of a registration *)

\* the step of r folds the record that the registration r waits for
FoldsOwnRegistration(r) ==
    /\ FoldStep(r)
    /\ registry[r].pc = "waiting"
    /\ hist[r].op = "register"
    /\ Head(reader[r].raw_msgs) = registry[r].sent_offset

\* the row of the registration equals what was sent
RowEqualsSent(r) ==
    LET c == reader'[r].cat
        s == hist[r].subject
        v == hist[r].version
    IN /\ HasRow(c, s, v)
       /\ SchemaEq(RowOf(c, s, v).schema, hist[r].schema)
       /\ RowOf(c, s, v).id = hist[r].id
       /\ RowOf(c, s, v).version = v
       /\ RowOf(c, s, v).deleted = FALSE

\* C31 (round trip of a registration): the SCHEMA record that
\* send_schema_message appends for a schema (type, canonical text, reference
\* list), once folded, yields a row whose TypedSchema equals the schema under
\* TypedSchema equality, references included, with the id, the version and
\* the deleted flag that were sent
C31_RegistrationRoundTrip ==
    [][\A r \in Replicas : FoldsOwnRegistration(r) => RowEqualsSent(r)]_vars

-----------------------------------------------------------------------------
(* Startup and shutdown of the projector thread: the four loops of run()    *)
(* and close().  phase is the loop whose test the thread stands at: "admin", *)
(* "consumer", "topic", "loop"; "done" when run() has returned and "raised"  *)
(* when an exception has ended it.                                           *)

\* KafkaSchemaReader.__init__: no client yet, run() at its first loop
NewReader ==
    [InitReader EXCEPT !.phase = "admin", !.admin_client = FALSE, !.consumer = FALSE,
                       !.schema_topic_exists = FALSE]

InitStartup ==
    /\ log = <<>>
    /\ reader = [r \in Replicas |-> NewReader]
    /\ mc = [r \in Replicas |-> "none"]
    /\ registry = [r \in Replicas |-> Idle]
    /\ hist = [r \in Replicas |-> NoHist]

\* a loop test that does not look at the stop signal
keeps_running_unstoppable(stop, done) == ~done

\* while not self._stop.is_set() and <not done>
keeps_running(stop, done) == ~stop /\ ~done

ClientOutcomes == {"ok", "no_brokers", "configuration_error", "other"}

\* one turn of the first loop: _create_admin_client_from_config returns or
\* raises; after a retried error the thread waits on the stop signal
CreateAdminClient(r, outcome) ==
    /\ reader[r].phase = "admin"
    /\ keeps_running(reader[r].stop, reader[r].admin_client)
    /\ reader' = [reader EXCEPT
           ![r].admin_client = (outcome = "ok"),
           ![r].phase = IF outcome = "configuration_error" THEN "raised" ELSE "admin"]
    /\ UNCHANGED <<log, mc, registry, hist>>

\* one turn of the second loop: _create_consumer_from_config
CreateConsumer(r, outcome) ==
    /\ reader[r].phase = "consumer"
    /\ keeps_running(reader[r].stop, reader[r].consumer)
    /\ reader' = [reader EXCEPT
           ![r].consumer = (outcome = "ok"),
           ![r].phase = IF outcome = "configuration_error" THEN "raised" ELSE "consumer"]
    /\ UNCHANGED <<log, mc, registry, hist>>

TopicOutcomes == {"created", "already_exists", "invalid_replication_factor", "other"}

\* one turn of the third loop: admin_client.create_topics
CreateTopic(r, outcome) ==
    /\ reader[r].phase = "topic"
    /\ keeps_running(reader[r].stop, reader[r].schema_topic_exists)
    /\ reader' = [reader EXCEPT
           ![r].schema_topic_exists = (outcome \in {"created", "already_exists"})]
    /\ UNCHANGED <<log, mc, registry, hist>>

\* the test of the loop the thread stands at fails: run() goes to the next
\* loop, and returns after the last one
LeaveLoop(r) ==
    /\ reader[r].raw_msgs = <<>>
    /\ CASE reader[r].phase = "admin" ->
                /\ ~keeps_running(reader[r].stop, reader[r].admin_client)
                /\ reader' = [reader EXCEPT ![r].phase = "consumer"]
         [] reader[r].phase = "consumer" ->
                /\ ~keeps_running(reader[r].stop, reader[r].consumer)
                /\ reader' = [reader EXCEPT ![r].phase = "topic"]
         [] reader[r].phase = "topic" ->
                /\ ~keeps_running(reader[r].stop, reader[r].schema_topic_exists)
                /\ reader' = [reader EXCEPT ![r].phase = "loop"]
         [] reader[r].phase = "loop" ->
                /\ ~keeps_running(reader[r].stop, FALSE)
                /\ reader' = [reader EXCEPT ![r].phase = "done"]
         [] OTHER -> FALSE
    /\ UNCHANGED <<log, mc, registry, hist>>

\* KafkaSchemaReader.close
Close(r) ==
    /\ ~reader[r].stop
    /\ reader' = [reader EXCEPT ![r].stop = TRUE]
    /\ UNCHANGED <<log, mc, registry, hist>>

DoCreateAdminClient(R) == \E r \in R, o \in ClientOutcomes : CreateAdminClient(r, o)
DoCreateConsumer(R) == \E r \in R, o \in ClientOutcomes : CreateConsumer(r, o)
DoCreateTopic(R) == \E r \in R, o \in TopicOutcomes : CreateTopic(r, o)
DoLeaveLoop(R) == \E r \in R : LeaveLoop(r)
DoClose(R) == \E r \in R : Close(r)

StartupPool == {RecA}

NextStartup ==
    \/ DoCreateAdminClient({"r1"})
    \/ DoCreateConsumer({"r1"})
    \/ DoCreateTopic({"r1"})
    \/ DoLeaveLoop({"r1"})
    \/ DoClose({"r1"})
    \/ Produce(StartupPool)
    \/ DoPoll({"r1"})
    \/ DoFold({"r1"})

SpecStartup == InitStartup /\ [][NextStartup]_vars

\* the steps of the thread of run() on replica r
RunStep(r) ==
    \/ \E o \in ClientOutcomes : CreateAdminClient(r, o) \/ CreateConsumer(r, o)
    \/ \E o \in TopicOutcomes : CreateTopic(r, o)
    \/ LeaveLoop(r)
    \/ \E k \in 0..MaxBatch, b, e \in BOOLEAN : Poll(r, k, b, e)
    \/ Fold(r)

\* the thread of run() keeps running while it has a step to take
SpecStartupFair == SpecStartup /\ WF_vars(RunStep("r1"))


\* run() has returned or an exception has ended it
RunEnded(r) == reader[r].phase \in {"done", "raised"}

\* once the stop signal is set the thread creates no client and no topic and
\* polls no more: at most the batch already polled is folded
StopsWork(r) ==
    reader[r].stop =>
        /\ reader'[r].admin_client = reader[r].admin_client
        /\ reader'[r].consumer = reader[r].consumer
        /\ reader'[r].schema_topic_exists = reader[r].schema_topic_exists
        /\ reader'[r].position = reader[r].position
        /\ reader'[r].stop

\* the thread uses the admin client and the consumer only when it has them
UsesCreatedClients(r) ==
    /\ (\E o \in TopicOutcomes : CreateTopic(r, o)) => reader[r].admin_client
    /\ reader'[r].position # reader[r].position => reader[r].consumer
    /\ reader'[r].offset # reader[r].offset => reader[r].consumer

\* C32 (shutdown): once close() has set the stop signal, run() terminates from
\* whichever phase it is in (admin-client creation, consumer creation, topic
\* creation, main loop) after at most the current wait or poll, and enters no
\* later phase that needs a client which was never created
C32_Shutdown ==
    /\ \A r \in {"r1"} : reader[r].stop ~> RunEnded(r)
    /\ [][\A r \in Replicas : StopsWork(r) /\ UsesCreatedClients(r)]_vars

\* run() has returned after close() without ever creating the consumer
C32_Witness ==
    /\ reader["r1"].stop
    /\ reader["r1"].phase = "done"
    /\ reader["r1"].admin_client
    /\ ~reader["r1"].consumer

-----------------------------------------------------------------------------
(* The offset of the projector *)

\* the step passes the record at the head of the batch to handle_msg
ReachesHandler(r) ==
    /\ FoldStep(r)
    /\ Folding(r).key.ok
    /\ Folding(r).value.kind # "badjson"

\* no record is passed to the handlers while the offset is uninitialised
InitialisedBeforeFold(r) ==
    ReachesHandler(r) => reader[r].offset # OFFSET_UNINITIALIZED

\* a loop turn whose beginning_offsets request fails leaves the offset
\* uninitialised; one whose request answers sets it to beginning offset - 1
SeededByBeginning(r) ==
    \A k \in 0..MaxBatch, b, e \in BOOLEAN :
        (reader[r].offset = OFFSET_UNINITIALIZED /\ Poll(r, k, b, e)) =>
            reader'[r].offset = IF b THEN 0 - 1 ELSE OFFSET_UNINITIALIZED

\* an initialised offset never decreases
OffsetMonotone(r) ==
    reader[r].offset # OFFSET_UNINITIALIZED => reader'[r].offset >= reader[r].offset

\* the offset takes the value o >= 0 only in the step that has passed the
\* record at offset o through the handlers
OffsetFollowsFold(r) ==
    (reader'[r].offset # reader[r].offset /\ reader'[r].offset >= 0) =>
        /\ ReachesHandler(r)
        /\ Handled(reader[r].cat, Folding(r))
        /\ reader'[r].offset = Head(reader[r].raw_msgs)

\* a step that folds nothing, a poll that fails or returns nothing included,
\* leaves an initialised offset as it is
OffsetKeptWithoutFold(r) ==
    (reader[r].offset # OFFSET_UNINITIALIZED /\ ~FoldStep(r)) =>
        reader'[r].offset = reader[r].offset

-----------------------------------------------------------------------------
(* SpecVersions: registrations on a subject whose rows come from the topic: *)
(* no row, soft-deleted rows only, or live rows                              *)

VersionsPool == {RecA, RecC, RecCSoftDelete}

NextVersions ==
    \/ Produce(VersionsPool)
    \/ DoPoll({"r1"})
    \/ DoFold({"r1"})
    \/ DoMasterChange({"r1"})
    \/ DoGate({"r1"})
    \/ DoRegister({"r1"}, {"s1"}, {SchemaB})
    \/ DoBarrierReturn({"r1"})

SpecVersions == Init /\ [][NextVersions]_vars

\* the versions of the rows of a subject, soft-deleted ones included
RowVersions(c, s) ==
    IF s \in DOMAIN c.subjects THEN DictKeys(c.subjects[s].schemas) ELSE {}

\* with no live version the registration meets no compatibility check and is
\* given version 1 on a subject without rows, else the highest version + 1
MissingPathVersion(r) ==
    LET c == reader[r].cat
        s == hist'[r].subject
    IN LiveVersions(c, s) = {} =>
           /\ hist'[r].error \notin {"IncompatibleSchema", "InvalidSchema"}
           /\ AppendBy(r) =>
                 hist'[r].version = IF RowVersions(c, s) = {} THEN 1
                                    ELSE SetMax(RowVersions(c, s)) + 1

\* the version a registration assigns is not a key of the schema table
VersionIsNew(r) ==
    AppendBy(r) =>
        /\ hist'[r].version \notin RowVersions(reader[r].cat, hist'[r].subject)
        /\ log'[Len(log')].key.version = hist'[r].version
        /\ log'[Len(log')].value.version = hist'[r].version

-----------------------------------------------------------------------------
(* referenced_by *)

\* the ids of the rows of the catalog that list (s, v) among their references
ReferrersOf(c, s, v) ==
    {row.id : row \in {x \in AllRows(c) :
                          \E i \in DOMAIN x.references :
                              /\ x.references[i].subject = s
                              /\ x.references[i].version = v}}

\* the ids that referenced_by lists for (s, v)
ListedReferrers(c, s, v) ==
    IF <<s, v>> \in DOMAIN c.referenced_by
    THEN {c.referenced_by[<<s, v>>][i] : i \in DOMAIN c.referenced_by[<<s, v>>]}
    ELSE {}

\* referenced_by lists no id twice
ListedOnce(c) ==
    \A k \in DOMAIN c.referenced_by :
        \A i, j \in DOMAIN c.referenced_by[k] :
            c.referenced_by[k][i] = c.referenced_by[k][j] => i = j

\* referenced_by is the reverse of the references of the rows of the catalog
ReverseEdges(c) ==
    /\ ListedOnce(c)
    /\ \A s \in Subjects, v \in 1..MaxLog :
           ListedReferrers(c, s, v) = ReferrersOf(c, s, v)

\* C35 (referenced_by): after any sequence of folded records
\* referenced_by[(subject, version)] contains an id exactly when a row of the
\* catalog has that id and lists (subject, version) among its references,
\* each id at most once; re-folding a record for an existing (subject,
\* version) or hard-deleting a referring row keeps it so
C35_ReferencedByReverse == \A r \in Replicas : ReverseEdges(reader[r].cat)

-----------------------------------------------------------------------------
(* SpecBoot: the thread of run() from a new reader, beside request handlers *)
(* that call get_master                                                      *)

\* KarapaceSchemaRegistry.get_master, a turn of its loop that returns
\* nothing: no master is known or the reader is not ready, and the handler
\* sleeps one second before the next turn
GetMasterSleep(r) ==
    /\ registry[r].pc = "idle"
    /\ mc[r] = "none" \/ ~reader[r].ready
    /\ hist' = [hist EXCEPT ![r] = [NoHist EXCEPT !.op = "get_master", !.outcome = "sleep"]]
    /\ UNCHANGED <<log, reader, mc, registry>>

DoGetMasterSleep(R) == \E r \in R : GetMasterSleep(r)

NextBoot ==
    \/ DoCreateAdminClient({"r1"})
    \/ DoCreateConsumer({"r1"})
    \/ DoCreateTopic({"r1"})
    \/ DoLeaveLoop({"r1"})
    \/ DoClose({"r1"})
    \/ DoPoll({"r1"})
    \/ DoMasterChange({"r1"})
    \/ DoGate({"r1"})
    \/ DoForward({"r1"})
    \/ DoGetMasterSleep({"r1"})

SpecBoot == InitStartup /\ [][NextBoot]_vars

\* a connectivity error, or any error but a configuration error, while
\* creating a client leaves the thread in the same loop, without the client
ClientErrorsRetried(r) ==
    \A o \in {"no_brokers", "other"} :
        /\ CreateAdminClient(r, o) =>
               reader'[r].phase = "admin" /\ ~reader'[r].admin_client
        /\ CreateConsumer(r, o) =>
               reader'[r].phase = "consumer" /\ ~reader'[r].consumer

\* a configuration error ends run() at once
ConfigurationErrorEnds(r) ==
    (CreateAdminClient(r, "configuration_error") \/ CreateConsumer(r, "configuration_error"))
        => reader'[r].phase = "raised"

\* once a configuration error has ended run(), no handler turns in the loop
\* of get_master waiting for the reader
NoWaitForDeadReader(r) == reader[r].phase = "raised" => ~GetMasterSleep(r)

\* create_topics answering TopicAlreadyExistsError counts as success, too few
\* replicas and other errors are retried
TopicPhase(r) ==
    /\ \A o \in {"created", "already_exists"} :
           CreateTopic(r, o) => reader'[r].schema_topic_exists
    /\ \A o \in {"invalid_replication_factor", "other"} :
           CreateTopic(r, o) =>
               reader'[r].phase = "topic" /\ ~reader'[r].schema_topic_exists

\* nothing is polled before the topic phase has succeeded
PollsAfterTopic(r) ==
    (\E k \in 0..MaxBatch, b, e \in BOOLEAN : Poll(r, k, b, e))
        => reader[r].schema_topic_exists /\ reader[r].admin_client /\ reader[r].consumer

\* C36 (startup failure policy): a connectivity error while creating the
\* admin client or the consumer is retried until it succeeds or stop is set
\* and never ends the projector; a configuration error bypasses the retries
\* and terminates the process, so that no request handler is left waiting in
\* get_master for a projector that will never become ready; topic creation
\* treats AlreadyExists as success and retries on insufficient replicas; no
\* poll happens before the topic phase has succeeded
C36_StartupPolicy ==
    [][\A r \in Replicas :
          /\ ClientErrorsRetried(r)
          /\ ConfigurationErrorEnds(r)
          /\ NoWaitForDeadReader(r)
          /\ TopicPhase(r)
          /\ PollsAfterTopic(r)]_vars

-----------------------------------------------------------------------------
(* C37: the watcher and the projector offset                                 *)

\* C37 (as stated): in every reachable state, under any interleaving of the
\* projector with waiting writers and with mastership changes, the greatest
\* offset of the watcher is at most the offset of the projector
C37_WatcherBehindProjector ==
    \A r \in Replicas : reader[r].greatest_offset <= reader[r].offset

\* a writer that the barrier would release now
Released(r) ==
    /\ registry[r].pc = "waiting"
    /\ registry[r].sent_offset <= reader[r].greatest_offset

\* C37 (amended): before the projector has seeded its offset the watcher
\* holds its initial -1, which is the offset of no record, and the projector
\* offset is OFFSET_UNINITIALIZED = -2; from the seeding on the greatest offset
\* of the watcher is at most the offset of the projector, so a writer released
\* by the barrier finds its own record behind the projector offset
C37_WatcherBehindSeededProjector ==
    \A r \in Replicas :
        /\ reader[r].offset = OFFSET_UNINITIALIZED => reader[r].greatest_offset = -1
        /\ reader[r].offset # OFFSET_UNINITIALIZED =>
               reader[r].greatest_offset <= reader[r].offset
        /\ Released(r) => registry[r].sent_offset <= reader[r].offset

\* a writer whose record the watcher has advertised waits at the barrier
C37_Witness ==
    \E r \in Replicas : Released(r) /\ reader[r].greatest_offset >= 0

-----------------------------------------------------------------------------
(* C38: the fast-match map against the rows                                  *)

\* the rows of subject s that are not deleted, print as text and carry id
LiveRowsWith(c, s, text, id) ==
    IF s \notin DOMAIN c.subjects THEN {}
    ELSE {i \in 1..Len(c.subjects[s].schemas) :
            /\ c.subjects[s].schemas[i][2].deleted = FALSE
            /\ StrOf(c.subjects[s].schemas[i][2].schema) = text
            /\ c.subjects[s].schemas[i][2].id = id}

FastMatchSound(c) ==
    \A k \in DOMAIN c.on_subject :
        LiveRowsWith(c, k[1], k[2], c.on_subject[k]) # {}

\* C38 (fast-match soundness): in every reachable state of the projection
\* each fast-match entry (subject, canonical text) -> id corresponds to a row
\* of that subject that is not deleted and has that text and that id; after
\* the fold of a hard delete of a row, or of an upsert of a version with a
\* different text, no entry remains for a text without a live version in the
\* subject
C38_FastMatchSound == \A r \in Replicas : FastMatchSound(reader[r].cat)

-----------------------------------------------------------------------------
(* SpecLock: the fold of a SCHEMA record taken line by line inside id_lock,  *)
(* beside a request handler that reads a row and then calls schemas_get      *)

\* _handle_msg_schema gets as far as 'with self.id_lock': the record has a
\* value with the fields that are read, a known type and a text that parses
reaches_id_lock(c, key, value) ==
    /\ key.keytype = "SCHEMA"
    /\ value.kind # "none" /\ value.has # {}
    /\ {"schema", "subject", "id", "version"} \subseteq value.has
    /\ value.schemaType \in SchemaTypes
    /\ IF value.schemaType \in {"AVRO", "JSON"}
       THEN json_loads(value.schema) # Err
       ELSE /\ resolve_references(c, value.references, MaxLog + 1)
            /\ proto_str(value.schema) # Err

\* the next polled record is one whose handler takes id_lock
LockedFold(rd) ==
    /\ rd.raw_msgs # <<>>
    /\ LET msg == log[Head(rd.raw_msgs) + 1]
       IN /\ msg.key.ok
          /\ msg.value.kind # "badjson"
          /\ reaches_id_lock(rd.cat, msg.key, msg.value)

\* a critical section entered without looking at the lock
id_lock_unchecked(rd) == TRUE

\* threading.Lock: 'with id_lock' goes on when no thread holds the lock
id_lock_free(rd) == ~rd.id_lock

\* the fold of a record whose handler never takes id_lock
FoldUnlocked(r) ==
    /\ ~LockedFold(reader[r])
    /\ Fold(r)

\* _handle_msg_schema up to 'with self.id_lock': the subject is inserted when
\* it is missing, then the lock is taken
AcquireIdLock(r) ==
    /\ LockedFold(reader[r])
    /\ ~reader[r].row_set
    /\ id_lock_free(reader[r])
    /\ LET c == reader[r].cat
           s == log[Head(reader[r].raw_msgs) + 1].value.subject
       IN reader' = [reader EXCEPT
              ![r].id_lock = TRUE,
              ![r].cat.subjects =
                  IF s \in DOMAIN c.subjects THEN c.subjects
                  ELSE SubjectsSet(c, s, EmptySubject)]
    /\ UNCHANGED <<log, mc, registry, hist>>

\* 'subjects_schemas[schema_version] = schema' inside the critical section
InsertRow(r) ==
    /\ reader[r].id_lock
    /\ ~reader[r].row_set
    /\ LET msg == log[Head(reader[r].raw_msgs) + 1]
           res == handle_msg_schema(reader[r].cat, msg.key, msg.value)
       IN reader' = [reader EXCEPT
              ![r].row_set = TRUE,
              ![r].cat.subjects = res.c.subjects]
    /\ UNCHANGED <<log, mc, registry, hist>>

\* the rest of the critical section, from referenced_by to the fast-match
\* entry, the release of the lock and the end of the loop body; the row is
\* there already and the handler writes it again with the same value
BindAndRelease(r) ==
    /\ reader[r].id_lock
    /\ reader[r].row_set
    /\ reader' = [reader EXCEPT ![r] =
           [FoldMsg(reader[r], Head(reader[r].raw_msgs)) EXCEPT
               !.id_lock = FALSE, !.row_set = FALSE]]
    /\ UNCHANGED <<log, mc, registry, hist>>

\* a request handler reads subjects[s].schemas through get_schemas, which
\* takes no lock, and keeps the id of one row
ObserveRow(r, s, include_deleted) ==
    /\ hist[r].op # "get_schemas"
    /\ \E i \in 1..Len(get_schemas(reader[r].cat, s, include_deleted)) :
          LET row == get_schemas(reader[r].cat, s, include_deleted)[i][2]
          IN hist' = [hist EXCEPT ![r] =
                 [NoHist EXCEPT !.op = "get_schemas", !.subject = s,
                                !.id = row.id, !.version = row.version,
                                !.outcome = IF DictHas(reader[r].cat.schemas, row.id)
                                            THEN "bound" ELSE "unbound"]]
    /\ UNCHANGED <<log, reader, mc, registry>>

\* the handler calls schemas_get with the id it kept: the call goes on when
\* the lock is free; error keeps whether the id was unbound when the row was
\* read, that is whether the call had to wait for the projector
SchemasGet(r) ==
    /\ hist[r].op = "get_schemas"
    /\ id_lock_free(reader[r])
    /\ hist' = [hist EXCEPT
           ![r].op = "schemas_get",
           ![r].outcome = IF schemas_get(reader[r].cat, hist[r].id) = <<>>
                          THEN "null" ELSE "found",
           ![r].error = IF hist[r].outcome = "unbound" THEN "waited" ELSE ""]
    /\ UNCHANGED <<log, reader, mc, registry>>

LockPool == {RecA, RecB, RecC, RecTombstone}

NextLock ==
    \/ Produce(LockPool)
    \/ DoPoll({"r1"})
    \/ FoldUnlocked("r1")
    \/ AcquireIdLock("r1")
    \/ InsertRow("r1")
    \/ BindAndRelease("r1")
    \/ \E s \in {"s1"}, d \in BOOLEAN : ObserveRow("r1", s, d)
    \/ SchemasGet("r1")

SpecLock == Init /\ [][NextLock]_vars

\* C39 (reader consistency under interleaving): while the projector folds a
\* SCHEMA record beside a request handler, a handler that has read a row with
\* id i in subjects[subject].schemas and then calls schemas_get(i) obtains a
\* schema and not None: the row and schemas[i] are written inside one
\* critical section of id_lock, and schemas_get takes the same lock
C39_ReaderConsistency ==
    \A r \in Replicas :
        hist[r].op = "schemas_get" =>
            hist[r].outcome = "found"

\* a handler read a row between its insertion and the binding of its id, and
\* its schemas_get has returned
C39_Witness ==
    \E r \in Replicas :
        /\ hist[r].op = "schemas_get"
        /\ hist[r].error = "waited"
        /\ hist[r].outcome = "found"

-----------------------------------------------------------------------------
(* C40: get_schemas_list against get_schemas                                 *)

\* list(subject_data["schemas"].values())
RowList(schemas) == [i \in 1..Len(schemas) |-> schemas[i][2]]

\* KafkaSchemaReader.get_schemas_list: the rows kept for each subject.  With
\* latest_only the selection is the last row itself, not a list of rows:
\* schemas[-1] raises IndexError for a subject without rows, and the filter
\* then iterates the keys of the row and raises AttributeError; Err stands for
\* both
get_schemas_list(c, include_deleted, latest_only) ==
    IF latest_only
    THEN IF \E s \in DOMAIN c.subjects : c.subjects[s].schemas = <<>> THEN Err
         ELSE IF include_deleted /\ DOMAIN c.subjects # {} THEN Err
         ELSE [s \in DOMAIN c.subjects |->
                 RowList(c.subjects[s].schemas)[Len(c.subjects[s].schemas)]]
    ELSE [s \in DOMAIN c.subjects |->
            IF include_deleted
            THEN SelectSeq(RowList(c.subjects[s].schemas), LAMBDA row : row.deleted = FALSE)
            ELSE RowList(c.subjects[s].schemas)]

ListAgrees(c, include_deleted) ==
    \A s \in DOMAIN c.subjects :
        get_schemas_list(c, include_deleted, FALSE)[s]
            = RowList(get_schemas(c, s, include_deleted))

\* C40: get_schemas_list(include_deleted, latest_only = false) agrees with
\* get_schemas for every subject: with include_deleted = false it returns only
\* the rows whose deleted flag is false, with include_deleted = true all the
\* rows of the subject, the soft-deleted ones included
C40_ListAgreesWithGetSchemas ==
    \A r \in Replicas : \A d \in BOOLEAN : ListAgrees(reader[r].cat, d)

=========================================================================
